---- MODULE Spec2Model ----
(***************************************************************************)
(* Idle-call watchdog (utils/hungup_idle_call.py), call termination        *)
(* (agent/helper/agent_class.py), the WebSocket LLM adapter                *)
(* (custom_websocket_llm.py) and the Groq LLM adapter (custom_groq_llm.py) *)
(* of the voice agent, as one state machine.                               *)
(*                                                                         *)
(* Scheduling is asyncio: one event loop, tasks run without interruption   *)
(* from one await to the next.  Every action below is one such segment:    *)
(* it starts where a task is resumed (or an event handler is called) and   *)
(* ends at the next await that really suspends.  Awaiting a coroutine that *)
(* returns without suspending (record_call_end on its early return, the    *)
(* hangup stub) does not yield, so it is part of the caller's segment.     *)
(***************************************************************************)
EXTENDS Integers, Sequences, FiniteSets

\* ------------------------------------------------------------ bounds
\* Wall-clock seconds run from 0 to MaxTime.
MaxTime == 7
\* Wall-clock bound where the watcher runs beside the agent's tools.
MaxCallTime == 7
\* Largest idle_timeout / warning_timeout the watcher is started with.
MaxTimeout == 2
\* Tool invocations (end_call, detected_answering_machine) per call.
MaxCalls == 2
\* Agent utterances the session plays besides the ones said here.
MaxSpeech == 1
\* chat() calls made on one socket adapter.
MaxChats == 2
\* Frames the server sends in answer to one request.
MaxFrames == 2
\* Frames a connection holds unread; the server waits while it is full.
MaxInbox == 2
\* Items of a conversation handed to chat().
MaxItems == 2
\* Frames that are no JSON the server sends on a call.
MaxGarbage == 1
\* Chunks the hosted provider yields in one completion.
MaxChunks == 3
\* Messages of a conversation handed to the Groq adapter.
MaxMsgs == 2
\* Knowledge-base lookups of one agent session.
MaxLookups == 3
\* Distinct snippets of the knowledge base.
MaxSnippets == 3
\* Snippets one retrieval call returns.
MaxResults == 3

\* ------------------------------------------------------------ constants
\* last_agent_finish_time = None
None == -1
\* await asyncio.sleep(1)  # Check every second
CheckInterval == 1
\* await asyncio.sleep(2)  # Let message play
PlayoutPause == 2
\* new_results = new_results[:2]  # Take top 2 new results
TopResults == 2

VARIABLES
    now,                     \* datetime.now(), in seconds
    session_started,         \* session._started
    idle_timeout,            \* idle_call_watcher argument
    warning_timeout,         \* idle_call_watcher argument
    last_agent_finish_time,  \* watcher local, None until the first assistant turn
    last_user_activity,      \* watcher local
    warning_sent,            \* watcher local
    elapsed_since_agent,     \* watcher local, kept across the await of the warning
    wd_pc,                   \* where the watcher task is suspended
    wd_wake,                 \* end of the sleep the watcher is in
    wd_log,                  \* what the watcher did ("warning", "closing", "hangup")
                             \* and what ended it ("say_failed", "cancel")
    last_turn,               \* role of the latest turn event, "none" before the first
    assistant_seen,          \* an assistant turn event has been delivered
    warnings_since_turn,     \* warnings completed since the latest turn event
    call_state,              \* CallState: call_started, call_end_recorded
    speech_seq,              \* utterances the session has started so far
    current_speech,          \* session.current_speech: 0 (None) or the utterance playing
    calls,                   \* tool invocations: pc, tool, awaited speech, log
    insert_calls,            \* calls of insert_call_end_async
    end_recorded_sets,       \* assignments call_end_recorded = True
    hangup_calls,            \* calls of hangup()
    ws,                      \* self._ws: 0 (None) or the number of the connection
    ws_open,                 \* self._ws.close_code is None
    inbox,                   \* frames the server has sent on self._ws, not yet read
    response_id_counter,     \* self._response_id_counter
    connection_lock,         \* self._connection_lock: 0 or the chat holding it
    request_lock,            \* self._request_lock: 0 or the chat holding it
    request_waiters,         \* chats queued on self._request_lock, first come first
    chat,                    \* chat() calls: pc, conversation, response id, deltas
    srv,                     \* the server's progress on each request it received
    wire,                    \* the requests sent so far, in order
    open_conns,              \* numbers of the connections that are open
    hs_read,                 \* handshake frames read so far on self._ws
    garbage_sent,             \* frames that are no JSON sent so far
    groq_pc,                 \* where GroqLLMStream._run is
    completion,              \* the chunks the provider has yielded so far
    provider,                \* the provider's stream: running, ended or raised
    content_buffer,          \* _run local: the content received so far
    chunk_count,             \* _run local
    event_ch,                \* self._event_ch: the chunks emitted
    lk_messages,             \* GroqLLM.chat: the items of chat_ctx
    groq_messages,           \* GroqLLM.chat: messages, what _convert_messages made
    seen_results,            \* EarkartAgent._seen_results
    lookup,                  \* each search_earkart_knowledge_base call's position
    returned                 \* what the lookups have returned, in order

wd_vars == <<idle_timeout, warning_timeout, last_agent_finish_time,
             last_user_activity, warning_sent, elapsed_since_agent, wd_pc,
             wd_wake, wd_log, last_turn, assistant_seen,
             warnings_since_turn>>
term_vars == <<call_state, speech_seq, current_speech, calls, insert_calls,
               end_recorded_sets>>
call_vars == <<now, session_started, wd_vars, term_vars, hangup_calls>>
sock_vars == <<ws, ws_open, inbox, response_id_counter, connection_lock,
               request_lock, request_waiters, chat, srv, wire, open_conns,
               hs_read, garbage_sent>>
groq_in == <<lk_messages, groq_messages>>
groq_vars == <<groq_pc, completion, provider, content_buffer, chunk_count,
               event_ch, groq_in>>
kb_vars == <<seen_results, lookup, returned>>
vars == <<call_vars, sock_vars, groq_vars, kb_vars>>

Calls == 1..MaxCalls
Chats == 1..MaxChats
Lookups == 1..MaxLookups

\* ------------------------------------------------------------ watchdog
\* Bug variant: the loop does not look at session._started.
LoopTopNoCheck(started, t) == [pc |-> "sleeping", wake |-> t + CheckInterval]

\* The head of `while True:` at time t: stop when the session is no longer
\* running, else sleep one check interval.
LoopTop(started, t) ==
    IF started THEN [pc |-> "sleeping", wake |-> t + CheckInterval]
               ELSE [pc |-> "stopped", wake |-> 0]

\* The watcher task has neither ended nor been cancelled.  Its locals and the
\* clock are read by nothing else, so turn events and seconds are followed
\* only while it lives.
WdAlive == wd_pc \notin {"stopped", "cancelled"}

\* Bug variant: the tick is skipped only when the user spoke after the agent,
\* the `is None` test is lost.
TickSkippedNoNoneTest(lat, lua) == lat # None /\ lua > lat

\* Bug variant: a tick is skipped only before the first assistant turn, the
\* user's turns are not looked at.
TickSkippedNoUserTest(lat, lua) == lat = None

\* The two `continue`s of a tick: no assistant turn yet, or the user spoke
\* after the agent finished.
TickSkipped(lat, lua) == lat = None \/ lua > lat

\* Bug variant: one warning per call, as if warning_sent were never cleared.
WarningDueCapped(elapsed, wt, sent) ==
    /\ elapsed > wt
    /\ ~sent
    /\ \A i \in 1..Len(wd_log) : wd_log[i] # "warning"

\* if elapsed_since_agent > warning_timeout and not warning_sent
WarningDue(elapsed, wt, sent) == elapsed > wt /\ ~sent

\* if elapsed_since_agent > idle_timeout
IdleDue(elapsed, it) == elapsed > it

\* Bug variant: the timeout branch goes to the pause and the hangup without
\* saying the closing line.
IdleBranchNoClosing(elapsed, it, started, t) ==
    IF IdleDue(elapsed, it)
    THEN IF started THEN [pc |-> "pause", wake |-> t + PlayoutPause]
                    ELSE [pc |-> "stopped", wake |-> 0]
    ELSE LoopTop(started, t)

\* The rest of a tick from the idle check on, with the elapsed time the tick
\* computed: say the closing line, or stop, or go round the loop.
IdleBranch(elapsed, it, started, t) ==
    IF IdleDue(elapsed, it)
    THEN IF started THEN [pc |-> "say_closing", wake |-> 0]
                    ELSE [pc |-> "stopped", wake |-> 0]
    ELSE LoopTop(started, t)

\* Bug variant: a failed say is logged and the loop goes on (`continue`).
SayFailedContinues(started, t) == LoopTop(started, t)

\* session.say raised inside the `try`: `except Exception` logs and breaks.
SayFailed(started, t) == [pc |-> "stopped", wake |-> 0]

\* Bug variant: the cancellation is caught where the task waits and the task
\* carries on from there.
CancelIgnored(pc) == pc

\* Bug variant: `except asyncio.CancelledError` logs and does not re-raise, the
\* coroutine returns normally.
CancelSwallowed(pc) == "stopped"

\* CancelledError is thrown into the task at the await it is suspended in
\* (pc); it is no Exception, so the inner handlers let it pass, the outer one
\* logs and re-raises it: the task ends cancelled.
Cancelled(pc) == "cancelled"

\* Bug variant: the warning is marked as sent and the clock is stopped.
AfterWarningClockUnset(t) ==
    [warning_sent |-> TRUE, last_agent_finish_time |-> None]

\* Bug variant: the warning re-anchors the clock but is not marked as sent.
AfterWarningNotMarked(t) ==
    [warning_sent |-> FALSE, last_agent_finish_time |-> t]

\* The assignments after `await session.say("Are you there? ...")` returns.
AfterWarning(t) == [warning_sent |-> TRUE, last_agent_finish_time |-> t]

\* on_conversation_item(event), event.item.role == 'user'
UserTurn ==
    /\ session_started
    /\ WdAlive
    /\ last_user_activity' = now
    /\ warning_sent' = FALSE
    /\ last_turn' = "user"
    /\ warnings_since_turn' = 0
    /\ UNCHANGED assistant_seen
    /\ UNCHANGED <<now, session_started, idle_timeout, warning_timeout,
                   last_agent_finish_time, elapsed_since_agent, wd_pc, wd_wake,
                   wd_log, term_vars, hangup_calls>>
    /\ UNCHANGED <<sock_vars, groq_vars, kb_vars>>

\* on_conversation_item(event), event.item.role == 'assistant'
AssistantTurn ==
    /\ session_started
    /\ WdAlive
    /\ last_agent_finish_time' = now
    /\ warning_sent' = FALSE
    /\ last_turn' = "assistant"
    /\ assistant_seen' = TRUE
    /\ warnings_since_turn' = 0
    /\ UNCHANGED <<now, session_started, idle_timeout, warning_timeout,
                   last_user_activity, elapsed_since_agent, wd_pc, wd_wake,
                   wd_log, term_vars, hangup_calls>>
    /\ UNCHANGED <<sock_vars, groq_vars, kb_vars>>

\* The watcher wakes from asyncio.sleep(1) and runs the tick up to its next
\* await.
WdTick ==
    /\ wd_pc = "sleeping"
    /\ now >= wd_wake
    /\ LET elapsed == now - last_agent_finish_time
           nxt == IF TickSkipped(last_agent_finish_time, last_user_activity)
                  THEN LoopTop(session_started, now)
                  ELSE IF WarningDue(elapsed, warning_timeout, warning_sent)
                  THEN IF session_started
                       THEN [pc |-> "say_warning", wake |-> 0]
                       ELSE [pc |-> "stopped", wake |-> 0]
                  ELSE IdleBranch(elapsed, idle_timeout, session_started, now)
       IN /\ wd_pc' = nxt.pc
          /\ wd_wake' = nxt.wake
          /\ elapsed_since_agent' =
                 IF nxt.pc = "say_warning" THEN elapsed ELSE 0
    /\ UNCHANGED <<now, session_started, idle_timeout, warning_timeout,
                   last_agent_finish_time, last_user_activity, warning_sent,
                   wd_log, last_turn, assistant_seen, warnings_since_turn,
                   term_vars,
                   hangup_calls>>
    /\ UNCHANGED <<sock_vars, groq_vars, kb_vars>>

\* session.say of the warning returns: mark it sent, re-anchor, then the idle
\* check of the same tick, on the elapsed time computed before the warning.
WdWarningDone ==
    /\ wd_pc = "say_warning"
    /\ LET a == AfterWarning(now)
           nxt == IdleBranch(elapsed_since_agent, idle_timeout,
                             session_started, now)
       IN /\ warning_sent' = a.warning_sent
          /\ last_agent_finish_time' = a.last_agent_finish_time
          /\ wd_pc' = nxt.pc
          /\ wd_wake' = nxt.wake
    /\ elapsed_since_agent' = 0
    /\ wd_log' = Append(wd_log, "warning")
    /\ warnings_since_turn' = warnings_since_turn + 1
    /\ UNCHANGED <<now, session_started, idle_timeout, warning_timeout,
                   last_user_activity, last_turn, assistant_seen, term_vars,
                   hangup_calls>>
    /\ UNCHANGED <<sock_vars, groq_vars, kb_vars>>

\* session.say raises (warning or closing line): except ... break
WdSayFail ==
    /\ wd_pc \in {"say_warning", "say_closing"}
    /\ wd_pc' = SayFailed(session_started, now).pc
    /\ wd_wake' = SayFailed(session_started, now).wake
    /\ elapsed_since_agent' = 0
    /\ wd_log' = Append(wd_log, "say_failed")
    /\ UNCHANGED <<now, session_started, idle_timeout, warning_timeout,
                   last_agent_finish_time, last_user_activity, warning_sent,
                   last_turn, assistant_seen, warnings_since_turn,
                   term_vars,
                   hangup_calls>>
    /\ UNCHANGED <<sock_vars, groq_vars, kb_vars>>

\* session.say of the closing line returns: await asyncio.sleep(2)
WdClosingDone ==
    /\ wd_pc = "say_closing"
    /\ wd_pc' = "pause"
    /\ wd_wake' = now + PlayoutPause
    /\ wd_log' = Append(wd_log, "closing")
    /\ UNCHANGED <<now, session_started, idle_timeout, warning_timeout,
                   last_agent_finish_time, last_user_activity, warning_sent,
                   elapsed_since_agent, last_turn, assistant_seen,
                   warnings_since_turn,
                   term_vars, hangup_calls>>
    /\ UNCHANGED <<sock_vars, groq_vars, kb_vars>>

\* The pause is over: await hangup(); break
WdHangup ==
    /\ wd_pc = "pause"
    /\ now >= wd_wake
    /\ wd_pc' = "stopped"
    /\ wd_wake' = 0
    /\ wd_log' = Append(wd_log, "hangup")
    /\ hangup_calls' = hangup_calls + 1
    /\ UNCHANGED <<now, session_started, idle_timeout, warning_timeout,
                   last_agent_finish_time, last_user_activity, warning_sent,
                   elapsed_since_agent, last_turn, assistant_seen,
                   warnings_since_turn,
                   term_vars>>
    /\ UNCHANGED <<sock_vars, groq_vars, kb_vars>>

\* The owner cancels the task while it is suspended: except CancelledError: raise
WdCancel ==
    /\ wd_pc \in {"sleeping", "say_warning", "say_closing", "pause"}
    /\ wd_pc' = Cancelled(wd_pc)
    /\ wd_wake' = IF wd_pc' = wd_pc THEN wd_wake ELSE 0
    /\ elapsed_since_agent' = IF wd_pc' = wd_pc THEN elapsed_since_agent ELSE 0
    /\ wd_log' = Append(wd_log, "cancel")
    /\ UNCHANGED <<now, session_started, idle_timeout, warning_timeout,
                   last_agent_finish_time, last_user_activity, warning_sent,
                   last_turn, assistant_seen, warnings_since_turn,
                   term_vars,
                   hangup_calls>>
    /\ UNCHANGED <<sock_vars, groq_vars, kb_vars>>

\* ------------------------------------------------------------ termination
Tools == {"end_call", "detected_answering_machine"}

\* Bug variant: record_call_end no longer looks at call_end_recorded.
RecordGuardStartedOnly(cs) == ~cs.call_started

\* record_call_end returns at once: already recorded, or the call never started.
RecordGuard(cs) == cs.call_end_recorded \/ ~cs.call_started

\* Bug variant: the flag is not set before the await of the insert (it would be
\* set once the insert is back).
RecordEnterFlagLate(cs) == cs

\* self.call_state.call_end_recorded = True, before the await of the insert.
RecordEnter(cs) == [cs EXCEPT !.call_end_recorded = TRUE]

\* Bug variant: record_call_end has no `except`, a failed insert leaves it.
AfterInsertUncaught(outcome) ==
    IF outcome = "raise" THEN "raised" ELSE "returned"

\* How record_call_end ends once insert_call_end_async has returned ("ok") or
\* raised ("raise"): `except Exception` logs and falls through.
AfterInsert(outcome) == "returned"

\* Bug variant: end_call says the closing line without looking at
\* session.current_speech.
SpeechBranchNoWait(cur) == [pc |-> "say", speech |-> 0, did |-> <<"say">>]

\* What end_call does with session.current_speech once record_call_end is
\* back: wait for its playout, or say the closing line at once.
SpeechBranch(cur) ==
    IF cur # 0 THEN [pc |-> "playout", speech |-> cur, did |-> <<>>]
               ELSE [pc |-> "say", speech |-> 0, did |-> <<"say">>]

\* The caller's segment after record_call_end returned: end_call goes on to
\* the speech check, detected_answering_machine hangs up and returns.
AfterRecord(tool, cur) ==
    IF tool = "end_call"
    THEN SpeechBranch(cur)
    ELSE [pc |-> "returned", speech |-> 0, did |-> <<"hangup">>]

\* Number of hangup() calls in a piece of log.
Hangups(did) == Cardinality({k \in 1..Len(did) : did[k] = "hangup"})

\* The LLM invokes a function tool: the segment up to the first await.
Invoke(i, tool) ==
    /\ calls[i].pc = "idle"
    /\ \A j \in Calls : j < i => calls[j].pc # "idle"
    /\ IF RecordGuard(call_state)
       THEN LET nxt == AfterRecord(tool, current_speech)
            IN /\ calls' = [calls EXCEPT ![i] =
                      [pc |-> nxt.pc, tool |-> tool, speech |-> nxt.speech,
                       log |-> <<"record">> \o nxt.did]]
               /\ hangup_calls' = hangup_calls + Hangups(nxt.did)
               /\ UNCHANGED <<call_state, insert_calls, end_recorded_sets>>
       ELSE /\ call_state' = RecordEnter(call_state)
            /\ end_recorded_sets' = end_recorded_sets +
                   (IF call_state'.call_end_recorded THEN 1 ELSE 0)
            /\ insert_calls' = insert_calls + 1
            /\ calls' = [calls EXCEPT ![i] =
                   [pc |-> "insert", tool |-> tool, speech |-> 0,
                    log |-> <<"record", "insert">>]]
            /\ UNCHANGED hangup_calls
    /\ UNCHANGED <<now, session_started, wd_vars, speech_seq, current_speech>>
    /\ UNCHANGED <<sock_vars, groq_vars, kb_vars>>

\* insert_call_end_async returns or raises; record_call_end ends and the
\* caller runs on to its next await.
InsertDone(i, outcome) ==
    /\ calls[i].pc = "insert"
    /\ LET failed == IF outcome = "raise" THEN <<"insert_failed">> ELSE <<>>
       IN IF AfterInsert(outcome) = "returned"
          THEN LET nxt == AfterRecord(calls[i].tool, current_speech)
               IN /\ calls' = [calls EXCEPT ![i].pc = nxt.pc,
                                            ![i].speech = nxt.speech,
                                            ![i].log = @ \o failed \o nxt.did]
                  /\ hangup_calls' = hangup_calls + Hangups(nxt.did)
          ELSE /\ calls' = [calls EXCEPT ![i].pc = "raised",
                                         ![i].log = @ \o failed]
               /\ UNCHANGED hangup_calls
    /\ UNCHANGED <<now, session_started, wd_vars, call_state, speech_seq,
                   current_speech, insert_calls, end_recorded_sets>>
    /\ UNCHANGED <<sock_vars, groq_vars, kb_vars>>

\* current_speech.wait_for_playout() returns: the awaited utterance is over;
\* end_call says the closing line.
PlayoutDone(i) ==
    /\ calls[i].pc = "playout"
    /\ current_speech # calls[i].speech
    /\ calls' = [calls EXCEPT ![i].pc = "say", ![i].speech = 0,
                              ![i].log = @ \o <<"playout", "say">>]
    /\ UNCHANGED <<now, session_started, wd_vars, call_state, speech_seq,
                   current_speech, insert_calls, end_recorded_sets,
                   hangup_calls>>
    /\ UNCHANGED <<sock_vars, groq_vars, kb_vars>>

\* current_speech.wait_for_playout() raises: end_call has no handler, the
\* exception leaves it before the closing line.
PlayoutFail(i) ==
    /\ calls[i].pc = "playout"
    /\ calls' = [calls EXCEPT ![i].pc = "raised",
                              ![i].log = @ \o <<"playout_failed">>]
    /\ UNCHANGED <<now, session_started, wd_vars, call_state, speech_seq,
                   current_speech, insert_calls, end_recorded_sets,
                   hangup_calls>>
    /\ UNCHANGED <<sock_vars, groq_vars, kb_vars>>

\* self.session.say(text=end_call_msg) returns: await hangup(); return "Noted"
SayDone(i) ==
    /\ calls[i].pc = "say"
    /\ calls' = [calls EXCEPT ![i].pc = "returned",
                              ![i].log = @ \o <<"hangup">>]
    /\ hangup_calls' = hangup_calls + 1
    /\ UNCHANGED <<now, session_started, wd_vars, call_state, speech_seq,
                   current_speech, insert_calls, end_recorded_sets>>
    /\ UNCHANGED <<sock_vars, groq_vars, kb_vars>>

\* self.session.say raises: end_call has no handler, the exception leaves it.
SayFail(i) ==
    /\ calls[i].pc = "say"
    /\ calls' = [calls EXCEPT ![i].pc = "raised"]
    /\ UNCHANGED <<now, session_started, wd_vars, call_state, speech_seq,
                   current_speech, insert_calls, end_recorded_sets,
                   hangup_calls>>
    /\ UNCHANGED <<sock_vars, groq_vars, kb_vars>>

\* The session starts playing an utterance of the agent.
SpeechStart ==
    /\ session_started
    /\ current_speech = 0
    /\ speech_seq < MaxSpeech
    /\ speech_seq' = speech_seq + 1
    /\ current_speech' = speech_seq + 1
    /\ UNCHANGED <<now, session_started, wd_vars, call_state, calls,
                   insert_calls, end_recorded_sets, hangup_calls>>
    /\ UNCHANGED <<sock_vars, groq_vars, kb_vars>>

\* The utterance has played out.
SpeechEnd ==
    /\ current_speech # 0
    /\ current_speech' = 0
    /\ UNCHANGED <<now, session_started, wd_vars, call_state, speech_seq,
                   calls, insert_calls, end_recorded_sets, hangup_calls>>
    /\ UNCHANGED <<sock_vars, groq_vars, kb_vars>>

\* ------------------------------------------------------------ socket adapter
\* A frame on the connection.  content is 0 for "" and else tells the deltas
\* of one response apart.  type "garbage" is a text frame that is no JSON,
\* type "binary" a binary frame whose bytes are no UTF-8.
Frame(type, id, content, complete) ==
    [type |-> type, id |-> id, content |-> content, complete |-> complete,
     end_call |-> FALSE]

\* What the service sends when a connection is made: its configuration and
\* its greeting.
Handshake ==
    <<Frame("config", 0, 0, FALSE), Frame("greeting", 0, 0, FALSE)>>

\* chat_ctx.items: the item at position 1 has a one-part content, the later
\* ones a two-part content; any roles.  Parts of text are numbers, 0 is " ".
Item(role, pos) ==
    [role |-> role,
     content |-> IF pos = 1 THEN <<1>> ELSE <<pos, 10 + pos>>]

Roles == {"user", "assistant"}

Conversations ==
    UNION { { [i \in 1..n |-> Item(r[i], i)] : r \in [1..n -> Roles] } :
            n \in 0..MaxItems }

\* The conversations of the turns of a call: nothing said yet, or the user
\* has just spoken.
Turns == { c \in Conversations : Len(c) <= 1 }

\* Bug variant: the first user message is taken, not the last.
FirstUser(conv) ==
    IF \E i \in 1..Len(conv) : conv[i].role = "user"
    THEN CHOOSE i \in 1..Len(conv) :
             /\ conv[i].role = "user"
             /\ \A j \in 1..Len(conv) : conv[j].role = "user" => i <= j
    ELSE 0

\* for msg in reversed(chat_ctx.items): the position of the last item whose
\* role is 'user', 0 when there is none (latest_message stays None).
LatestUser(conv) ==
    IF \E i \in 1..Len(conv) : conv[i].role = "user"
    THEN CHOOSE i \in 1..Len(conv) :
             /\ conv[i].role = "user"
             /\ \A j \in 1..Len(conv) : conv[j].role = "user" => j <= i
    ELSE 0

RECURSIVE JoinParts(_)
\* ' '.join(str(item) for item in content)
JoinParts(parts) ==
    IF parts = <<>> THEN <<>>
    ELSE IF Len(parts) = 1 THEN <<parts[1]>>
    ELSE <<parts[1], 0>> \o JoinParts(Tail(parts))

\* _extract_message_content(msg) for a message whose content is a list.
ExtractContent(msg) == JoinParts(msg.content)

\* transcript = [{"role": "user", "content": content}]
Transcript(conv) ==
    <<[role |-> "user", content |-> ExtractContent(conv[LatestUser(conv)])]>>

\* Bug variant: the counter is not advanced once it has been used.
NextResponseIdStuck(counter) == IF counter = 0 THEN 1 ELSE counter

\* self._response_id_counter += 1
NextResponseId(counter) == counter + 1

\* Bug variant: a connection is made for every request.
NeedsConnectAlways(w, open) == TRUE

\* if self._ws is None or self._ws.close_code is not None
NeedsConnect(w, open) == w = 0 \/ ~open

\* Bug variant: the response_id of a frame is not looked at.
MatchesAnyId(f, expected) == f.type = "response"

\* json.loads succeeded, response_type == "response" and
\* response_id == expected_response_id
Matches(f, expected) == f.type = "response" /\ f.id = expected

\* data = json.loads(response): the parsed object, or the exception raised.
\* A text that is no JSON raises JSONDecodeError; bytes that are no UTF-8
\* fail in the decoding that json.loads does first, with UnicodeDecodeError.
JsonLoads(f) ==
    IF f.type = "garbage" THEN "JSONDecodeError"
    ELSE IF f.type = "binary" THEN "UnicodeDecodeError"
    ELSE "ok"

\* Bug variant: the end_call flag ends the stream like content_complete.
EndsStreamOnEndCall(f) == f.complete \/ f.end_call

\* if is_complete: break.  The end_call flag of the frame is logged and
\* nothing else.
EndsStream(f) == f.complete

\* Bug variant: the content is yielded whatever it is.
HasContentAlways(f) == TRUE

\* if content:
HasContent(f) == f.content # 0

\* A chat whose request is on the wire and whose response has not been
\* drained to its end.
InFlight(c) == c.pc \in {"stream", "wait_recv", "recv", "yielded"}

\* Leaving `async with self._request_lock`: the lock goes to the chat that has
\* waited longest, if any.
ReleaseRequestLock ==
    /\ request_lock' = IF request_waiters = <<>> THEN 0
                       ELSE Head(request_waiters)
    /\ request_waiters' = IF request_waiters = <<>> THEN <<>>
                          ELSE Tail(request_waiters)

\* _send_request from the search for the latest user message on, in chat k
\* which holds the request lock: raise ValueError, or advance the counter and
\* start sending.
BuildRequest(k, ch) ==
    IF LatestUser(ch[k].conv) = 0
    THEN /\ chat' = [ch EXCEPT ![k].pc = "failed", ![k].err = "no_user"]
         /\ ReleaseRequestLock
         /\ UNCHANGED response_id_counter
    ELSE /\ response_id_counter' = NextResponseId(response_id_counter)
         /\ chat' = [ch EXCEPT ![k].pc = "sending",
                               ![k].id = response_id_counter']
         /\ request_lock' = k
         /\ UNCHANGED request_waiters

\* _send_request in chat k once it holds the request lock: _ensure_connection
\* connects when there is no open connection, else the request is built.
EnsureConnection(k, ch) ==
    IF NeedsConnect(ws, ws_open)
    THEN /\ chat' = [ch EXCEPT ![k].pc = "connecting",
                               ![k].attempts = @ + 1]
         /\ connection_lock' = k
         /\ request_lock' = k
         /\ UNCHANGED <<response_id_counter, request_waiters>>
    ELSE /\ BuildRequest(k, ch)
         /\ UNCHANGED connection_lock

\* What the actions of the adapter leave alone unless they say otherwise.
ConnUnchanged == UNCHANGED <<ws, ws_open, open_conns, hs_read>>

ServerUnchanged == UNCHANGED <<srv, garbage_sent>>

\* chat(chat_ctx=...) is entered (__aenter__): _send_request takes the request
\* lock or queues for it.  conv: chat_ctx.items.
Chat(k, conv) ==
    /\ chat[k].pc = "idle"
    /\ \A j \in Chats : j < k => chat[j].pc # "idle"
    /\ LET ch == [chat EXCEPT ![k].conv = conv]
       IN IF request_lock = 0
          THEN EnsureConnection(k, ch)
          ELSE /\ chat' = [ch EXCEPT ![k].pc = "wait_send"]
               /\ request_waiters' = Append(request_waiters, k)
               /\ UNCHANGED <<response_id_counter, connection_lock,
                              request_lock>>
    /\ ConnUnchanged /\ ServerUnchanged
    /\ UNCHANGED <<inbox, wire>>
    /\ UNCHANGED <<call_vars, groq_vars, kb_vars>>

\* A chat queued in _send_request has been given the request lock.
AcquireSend(k) ==
    /\ chat[k].pc = "wait_send"
    /\ request_lock = k
    /\ EnsureConnection(k, chat)
    /\ ConnUnchanged /\ ServerUnchanged
    /\ UNCHANGED <<inbox, wire>>
    /\ UNCHANGED <<call_vars, groq_vars, kb_vars>>

\* websockets.connect returns: self._ws is the new connection; the first
\* recv of the handshake is awaited.
ConnectDone(k) ==
    /\ chat[k].pc = "connecting"
    /\ ws' = ws + 1
    /\ ws_open' = TRUE
    /\ open_conns' = open_conns \cup {ws + 1}
    /\ hs_read' = 0
    /\ inbox' = Handshake
    /\ chat' = [chat EXCEPT ![k].pc = "config"]
    /\ ServerUnchanged
    /\ UNCHANGED <<response_id_counter, connection_lock, request_lock,
                   request_waiters, wire>>
    /\ UNCHANGED <<call_vars, groq_vars, kb_vars>>

\* Bug variant: a failed connect is tried once more before it is given up.
ConnectFailRetries(k) ==
    /\ chat[k].pc = "connecting"
    /\ IF chat[k].attempts < 2
       THEN /\ chat' = [chat EXCEPT ![k].attempts = @ + 1]
            /\ UNCHANGED <<connection_lock, request_lock, request_waiters>>
       ELSE /\ chat' = [chat EXCEPT ![k].pc = "failed", ![k].err = "connect"]
            /\ connection_lock' = 0
            /\ ReleaseRequestLock
    /\ ConnUnchanged /\ ServerUnchanged
    /\ UNCHANGED <<inbox, response_id_counter, wire>>
    /\ UNCHANGED <<call_vars, groq_vars, kb_vars>>

\* websockets.connect raises or times out: logged and raised again, both
\* locks are left.
ConnectFail(k) ==
    /\ chat[k].pc = "connecting"
    /\ chat' = [chat EXCEPT ![k].pc = "failed", ![k].err = "connect"]
    /\ connection_lock' = 0
    /\ ReleaseRequestLock
    /\ ConnUnchanged /\ ServerUnchanged
    /\ UNCHANGED <<inbox, response_id_counter, wire>>
    /\ UNCHANGED <<call_vars, groq_vars, kb_vars>>

\* A recv of the handshake returns the next frame, whatever it is; after the
\* second one the connection lock is left and the request is built.
RecvHandshake(k) ==
    /\ chat[k].pc \in {"config", "greeting"}
    /\ inbox # <<>>
    /\ inbox' = Tail(inbox)
    /\ hs_read' = hs_read +
           (IF Head(inbox).type \in {"config", "greeting"} THEN 1 ELSE 0)
    /\ IF chat[k].pc = "config"
       THEN /\ chat' = [chat EXCEPT ![k].pc = "greeting"]
            /\ UNCHANGED <<response_id_counter, connection_lock,
                           request_lock, request_waiters>>
       ELSE /\ connection_lock' = 0
            /\ BuildRequest(k, chat)
    /\ ServerUnchanged
    /\ UNCHANGED <<ws, ws_open, open_conns, wire>>
    /\ UNCHANGED <<call_vars, groq_vars, kb_vars>>

\* A recv of the handshake raises because the connection is gone: logged and
\* raised again, both locks are left; self._ws stays the dead connection.
HandshakeFail(k) ==
    /\ chat[k].pc \in {"config", "greeting"}
    /\ ~ws_open
    /\ inbox = <<>>
    /\ chat' = [chat EXCEPT ![k].pc = "failed", ![k].err = "closed"]
    /\ connection_lock' = 0
    /\ ReleaseRequestLock
    /\ ConnUnchanged /\ ServerUnchanged
    /\ UNCHANGED <<inbox, response_id_counter, wire>>
    /\ UNCHANGED <<call_vars, groq_vars, kb_vars>>

\* self._ws.send returns: the request is with the server, _send_request
\* returns the id and leaves the request lock, __aenter__ returns the stream.
SendDone(k) ==
    /\ chat[k].pc = "sending"
    /\ ws_open
    /\ wire' = Append(wire, [response_id |-> chat[k].id,
                             transcript |-> Transcript(chat[k].conv),
                             conn |-> ws, hs_read |-> hs_read, chat |-> k])
    /\ srv' = [srv EXCEPT ![chat[k].id].state = "answering",
                          ![chat[k].id].conn = ws]
    /\ chat' = [chat EXCEPT ![k].pc = "stream"]
    /\ ReleaseRequestLock
    /\ ConnUnchanged
    /\ UNCHANGED <<inbox, response_id_counter, connection_lock, garbage_sent>>
    /\ UNCHANGED <<call_vars, groq_vars, kb_vars>>

\* self._ws.send raises: the error leaves _send_request and __aenter__.
SendFail(k) ==
    /\ chat[k].pc = "sending"
    /\ chat' = [chat EXCEPT ![k].pc = "failed", ![k].err = "send"]
    /\ ReleaseRequestLock
    /\ ConnUnchanged /\ ServerUnchanged
    /\ UNCHANGED <<inbox, response_id_counter, connection_lock, wire>>
    /\ UNCHANGED <<call_vars, groq_vars, kb_vars>>

\* The consumer asks the stream for its first chunk: the generator
\* _receive_response starts and takes the request lock or queues for it.
StartRead(k) ==
    /\ chat[k].pc = "stream"
    /\ IF request_lock = 0
       THEN /\ request_lock' = k
            /\ chat' = [chat EXCEPT ![k].pc = "recv"]
            /\ UNCHANGED request_waiters
       ELSE /\ chat' = [chat EXCEPT ![k].pc = "wait_recv"]
            /\ request_waiters' = Append(request_waiters, k)
            /\ UNCHANGED request_lock
    /\ ConnUnchanged /\ ServerUnchanged
    /\ UNCHANGED <<inbox, response_id_counter, connection_lock, wire>>
    /\ UNCHANGED <<call_vars, groq_vars, kb_vars>>

\* A generator queued in _receive_response has been given the request lock.
AcquireRecv(k) ==
    /\ chat[k].pc = "wait_recv"
    /\ request_lock = k
    /\ chat' = [chat EXCEPT ![k].pc = "recv"]
    /\ ConnUnchanged /\ ServerUnchanged
    /\ UNCHANGED <<inbox, response_id_counter, connection_lock,
                   request_lock, request_waiters, wire>>
    /\ UNCHANGED <<call_vars, groq_vars, kb_vars>>

\* self._ws.recv returns a frame to the generator of chat k: a matching frame
\* with content is yielded, a matching complete frame without content ends
\* the generator, any other frame (no JSON, other type, other id) is passed
\* over; an exception of json.loads other than JSONDecodeError is logged and
\* raised to the consumer.
Recv(k) ==
    /\ chat[k].pc = "recv"
    /\ inbox # <<>>
    /\ inbox' = Tail(inbox)
    /\ hs_read' = hs_read +
           (IF Head(inbox).type \in {"config", "greeting"} THEN 1 ELSE 0)
    /\ LET f == Head(inbox)
       IN IF JsonLoads(f) \notin {"ok", "JSONDecodeError"}
          THEN /\ chat' = [chat EXCEPT ![k].pc = "failed", ![k].err = "error"]
               /\ ReleaseRequestLock
          ELSE IF Matches(f, chat[k].id) /\ HasContent(f)
          THEN /\ chat' = [chat EXCEPT ![k].pc = "yielded",
                                       ![k].out = Append(@, f.content),
                                       ![k].fin = EndsStream(f)]
               /\ UNCHANGED <<request_lock, request_waiters>>
          ELSE IF Matches(f, chat[k].id) /\ EndsStream(f)
          THEN /\ chat' = [chat EXCEPT ![k].pc = "done"]
               /\ ReleaseRequestLock
          ELSE /\ UNCHANGED <<chat, request_lock, request_waiters>>
    /\ ServerUnchanged
    /\ UNCHANGED <<ws, ws_open, open_conns, response_id_counter,
                   connection_lock, wire>>
    /\ UNCHANGED <<call_vars, groq_vars, kb_vars>>

\* The consumer asks for the next chunk: the generator goes on after its
\* yield, to the end if the yielded frame was the complete one.
Resume(k) ==
    /\ chat[k].pc = "yielded"
    /\ IF chat[k].fin
       THEN /\ chat' = [chat EXCEPT ![k].pc = "done"]
            /\ ReleaseRequestLock
       ELSE /\ chat' = [chat EXCEPT ![k].pc = "recv"]
            /\ UNCHANGED <<request_lock, request_waiters>>
    /\ ConnUnchanged /\ ServerUnchanged
    /\ UNCHANGED <<inbox, response_id_counter, connection_lock, wire>>
    /\ UNCHANGED <<call_vars, groq_vars, kb_vars>>

\* Bug variant: the connection is closed when a read times out.
RecvTimeoutCloses(k) ==
    /\ chat[k].pc = "recv"
    /\ inbox = <<>>
    /\ ws_open
    /\ chat' = [chat EXCEPT ![k].pc = "failed", ![k].err = "timeout"]
    /\ ReleaseRequestLock
    /\ ws_open' = FALSE
    /\ open_conns' = open_conns \ {ws}
    /\ ServerUnchanged
    /\ UNCHANGED <<ws, hs_read, inbox, response_id_counter, connection_lock,
                   wire>>
    /\ UNCHANGED <<call_vars, groq_vars, kb_vars>>

\* No frame arrives within response_timeout: TimeoutError is logged and
\* raised to the consumer, the request lock is left.
RecvTimeout(k) ==
    /\ chat[k].pc = "recv"
    /\ inbox = <<>>
    /\ ws_open
    /\ chat' = [chat EXCEPT ![k].pc = "failed", ![k].err = "timeout"]
    /\ ReleaseRequestLock
    /\ ConnUnchanged /\ ServerUnchanged
    /\ UNCHANGED <<inbox, response_id_counter, connection_lock, wire>>
    /\ UNCHANGED <<call_vars, groq_vars, kb_vars>>

\* recv raises because the connection is gone: logged and raised to the
\* consumer, the request lock is left.
RecvClosed(k) ==
    /\ chat[k].pc = "recv"
    /\ inbox = <<>>
    /\ ~ws_open
    /\ chat' = [chat EXCEPT ![k].pc = "failed", ![k].err = "closed"]
    /\ ReleaseRequestLock
    /\ ConnUnchanged /\ ServerUnchanged
    /\ UNCHANGED <<inbox, response_id_counter, connection_lock, wire>>
    /\ UNCHANGED <<call_vars, groq_vars, kb_vars>>

\* The task running chat k is cancelled at the await it is suspended in:
\* CancelledError leaves the `async with` blocks it is in (it is no
\* Exception, nothing catches it); what was assigned before stays.
CancelChat(k) ==
    /\ chat[k].pc \in {"wait_send", "connecting", "config", "greeting",
                       "sending", "wait_recv", "recv"}
    /\ chat' = [chat EXCEPT ![k].pc = "cancelled"]
    /\ IF chat[k].pc \in {"wait_send", "wait_recv"} /\ request_lock # k
       THEN /\ request_waiters' =
                   SelectSeq(request_waiters, LAMBDA j : j # k)
            /\ UNCHANGED request_lock
       ELSE ReleaseRequestLock
    /\ connection_lock' = IF connection_lock = k THEN 0 ELSE connection_lock
    /\ ConnUnchanged /\ ServerUnchanged
    /\ UNCHANGED <<inbox, response_id_counter, wire>>
    /\ UNCHANGED <<call_vars, groq_vars, kb_vars>>

\* The consumer of chat k stops iterating and leaves the `async with` of the
\* chat: __aexit__ calls aclose, which does nothing.  A generator that was
\* suspended at its yield stays suspended there, inside `async with
\* self._request_lock`; one that was never started holds nothing.
Abandon(k) ==
    /\ chat[k].pc \in {"stream", "yielded"}
    /\ chat' = [chat EXCEPT ![k].pc = "abandoned"]
    /\ ConnUnchanged /\ ServerUnchanged
    /\ UNCHANGED <<inbox, response_id_counter, connection_lock, request_lock,
                   request_waiters, wire>>
    /\ UNCHANGED <<call_vars, groq_vars, kb_vars>>

\* The abandoned generator is finalised (the interpreter collects it and the
\* event loop closes it): GeneratorExit at the yield leaves the `async with`
\* and the request lock.  Whether and when this happens is up to the
\* interpreter and to who still refers to the stream.
Finalise(k) ==
    /\ chat[k].pc = "abandoned"
    /\ request_lock = k
    /\ chat' = [chat EXCEPT ![k].pc = "closed"]
    /\ ReleaseRequestLock
    /\ ConnUnchanged /\ ServerUnchanged
    /\ UNCHANGED <<inbox, response_id_counter, connection_lock, wire>>
    /\ UNCHANGED <<call_vars, groq_vars, kb_vars>>

\* The server sends the next frame of its answer to request r, with or
\* without content; the last frame it may send is the complete one.
ServerSend(r, empty, complete, end_call) ==
    /\ srv[r].state = "answering"
    /\ ws_open
    /\ srv[r].conn = ws
    /\ Len(inbox) < MaxInbox
    /\ srv[r].frames + 1 = MaxFrames => complete
    /\ LET content == IF empty THEN 0 ELSE srv[r].frames + 1
       IN inbox' = Append(inbox,
                          [Frame("response", r, content, complete)
                               EXCEPT !.end_call = end_call])
    /\ srv' = [srv EXCEPT ![r].frames = @ + 1,
                          ![r].flagged = @ \/ end_call,
                          ![r].state = IF complete THEN "done" ELSE @]
    /\ ConnUnchanged
    /\ UNCHANGED <<response_id_counter, connection_lock, request_lock,
                   request_waiters, chat, wire, garbage_sent>>
    /\ UNCHANGED <<call_vars, groq_vars, kb_vars>>

\* The server sends a frame that is no JSON: a text frame, or a binary frame
\* with bytes that are no UTF-8.
ServerGarbage(type) ==
    /\ ws_open
    /\ garbage_sent < MaxGarbage
    /\ Len(inbox) < MaxInbox
    /\ inbox' = Append(inbox, Frame(type, 0, 0, FALSE))
    /\ garbage_sent' = garbage_sent + 1
    /\ ConnUnchanged
    /\ UNCHANGED <<response_id_counter, connection_lock, request_lock,
                   request_waiters, chat, wire, srv>>
    /\ UNCHANGED <<call_vars, groq_vars, kb_vars>>

\* The connection is closed by the peer or lost; frames not yet read are
\* lost with it.
ConnLost ==
    /\ ws # 0
    /\ ws_open
    /\ ws_open' = FALSE
    /\ open_conns' = open_conns \ {ws}
    /\ inbox' = <<>>
    /\ ServerUnchanged
    /\ UNCHANGED <<ws, hs_read, response_id_counter, connection_lock,
                   request_lock, request_waiters, chat, wire>>
    /\ UNCHANGED <<call_vars, groq_vars, kb_vars>>

\* close(): the owner closes the connection if there is an open one.
Close ==
    /\ ws # 0 /\ ws_open
    /\ ws_open' = FALSE
    /\ open_conns' = open_conns \ {ws}
    /\ inbox' = <<>>
    /\ ServerUnchanged
    /\ UNCHANGED <<ws, hs_read, response_id_counter, connection_lock,
                   request_lock, request_waiters, chat, wire>>
    /\ UNCHANGED <<call_vars, groq_vars, kb_vars>>

\* ------------------------------------------------------------ Groq adapter
\* A chunk of the provider's stream.  choices: chunk.choices is not empty;
\* content: delta.content, 0 for None or "", else a number that tells the
\* deltas apart.
Chunk(choices, content) == [choices |-> choices, content |-> content]

\* _create_chat_chunk(chunk_id, content).  kind tells the three texts apart:
\* a delta of the provider, the fallback for an empty response, the apology
\* after an error.
ChatChunk(kind, content) == [kind |-> kind, content |-> content]

\* Bug variant: the content of the delta is not looked at.
HasDeltaAnyContent(c) == c.choices

\* if chunk.choices and len(chunk.choices) > 0: ... if hasattr(delta,
\* 'content') and delta.content
HasDelta(c) == c.choices /\ c.content # 0

\* A text is a sequence of characters, 0 the blank.  The texts that
\* messages are made of.
Texts == {<<>>, <<0>>, <<1>>, <<0, 1, 0>>, <<1, 0, 2>>}

\* A message handed to chat().  kind "obj": an object with role and content;
\* kind "dict": a dict, role "absent" when it has no 'role' key; kind "str":
\* a plain string.  ctype "str": the content is the text parts[1]; ctype
\* "list": the content is the list parts.
Msg(kind, role, ctype, parts) ==
    [kind |-> kind, role |-> role, ctype |-> ctype, parts |-> parts]

ObjRoles == {"user", "assistant", "system", "developer"}

DictRoles == {"user", "assistant", "system", "tool", "absent"}

ListContents ==
    {<<>>, <<<<>>>>, <<<<1>>>>, <<<<>>, <<>>>>, <<<<1>>, <<2>>>>,
     <<<<0>>, <<1>>>>}

Msgs ==
    { Msg("obj", r, "str", <<t>>) : r \in ObjRoles, t \in Texts }
    \cup { Msg("obj", r, "list", p) : r \in ObjRoles, p \in ListContents }
    \cup { Msg("dict", r, "str", <<t>>) : r \in DictRoles, t \in Texts }
    \cup { Msg("str", "absent", "str", <<t>>) : t \in Texts }

\* The conversations of up to MaxMsgs messages.
GroqConversations == UNION { [1..n -> Msgs] : n \in 0..MaxMsgs }

\* The conversations of a turn: nothing, a blank message, a user message.
GroqTurns ==
    {<<>>, <<Msg("obj", "user", "str", <<<<0>>>>)>>,
     <<Msg("obj", "user", "str", <<<<1>>>>)>>}

RECURSIVE LStrip(_)
LStrip(t) == IF t # <<>> /\ Head(t) = 0 THEN LStrip(Tail(t)) ELSE t

RECURSIVE RStrip(_)
RStrip(t) ==
    IF t # <<>> /\ t[Len(t)] = 0 THEN RStrip(SubSeq(t, 1, Len(t) - 1)) ELSE t

\* content.strip()
Strip(t) == RStrip(LStrip(t))

RECURSIVE JoinTexts(_)
\* " ".join(content_parts)
JoinTexts(parts) ==
    IF parts = <<>> THEN <<>>
    ELSE IF Len(parts) = 1 THEN parts[1]
    ELSE parts[1] \o <<0>> \o JoinTexts(Tail(parts))

\* The role of a message object: the first of user, assistant, system that
\* str(msg.role).lower() contains, user when it contains none.
ObjRole(role_str) ==
    IF role_str = "user" THEN "user"
    ELSE IF role_str = "assistant" THEN "assistant"
    ELSE IF role_str = "system" THEN "system"
    ELSE "user"

\* role = msg.get("role", "user")
DictRole(role) == IF role = "absent" THEN "user" ELSE role

\* The content of a message before stripping.
RawContent(msg) ==
    IF msg.ctype = "list" THEN JoinTexts(msg.parts) ELSE msg.parts[1]

\* One turn of the loop of _convert_messages: the entry appended for msg, if
\* any.
ConvertOne(msg) ==
    LET content == Strip(RawContent(msg))
        role == IF msg.kind = "obj" THEN ObjRole(msg.role)
                ELSE IF msg.kind = "dict" THEN DictRole(msg.role)
                ELSE "user"
    IN IF content # <<>> THEN <<[role |-> role, content |-> content]>>
       ELSE <<>>

RECURSIVE ConvertMessages(_)
\* _convert_messages(lk_messages)
ConvertMessages(msgs) ==
    IF msgs = <<>> THEN <<>>
    ELSE ConvertOne(Head(msgs)) \o ConvertMessages(Tail(msgs))

\* Bug variant: chat raises when no message is left.
GroqChatRaisesOnEmpty(items) ==
    /\ groq_pc = "new"
    /\ lk_messages' = items
    /\ groq_messages' = ConvertMessages(items)
    /\ groq_pc' = IF ConvertMessages(items) = <<>> THEN "escaped" ELSE "idle"
    /\ UNCHANGED <<completion, provider, content_buffer, chunk_count,
                   event_ch>>
    /\ UNCHANGED <<call_vars, sock_vars, kb_vars>>

\* GroqLLM.chat(chat_ctx=...): the items are converted and the stream is
\* made, with generation_params = {} when no message is left.
GroqChat(items) ==
    /\ groq_pc = "new"
    /\ lk_messages' = items
    /\ groq_messages' = ConvertMessages(items)
    /\ groq_pc' = "idle"
    /\ UNCHANGED <<completion, provider, content_buffer, chunk_count,
                   event_ch>>
    /\ UNCHANGED <<call_vars, sock_vars, kb_vars>>

\* What _run and the provider leave alone.
GroqFrame == UNCHANGED <<call_vars, sock_vars, groq_in, kb_vars>>

\* _run starts and self._groq_client.chat.completions.create returns the
\* stream; with generation_params = {} the call lacks its required
\* arguments and can only raise.
GroqCreate ==
    /\ groq_pc = "idle"
    /\ groq_messages # <<>>
    /\ groq_pc' = "next"
    /\ provider' = "running"
    /\ UNCHANGED <<completion, content_buffer, chunk_count, event_ch>>
    /\ GroqFrame

\* Bug variant: the exception leaves _run.
GroqRaisePropagates ==
    /\ groq_pc \in {"idle", "next"}
    /\ groq_pc' = "escaped"
    /\ provider' = "raised"
    /\ UNCHANGED <<completion, content_buffer, chunk_count, event_ch>>
    /\ GroqFrame

\* create, or the iteration of the stream, raises: the handler logs and
\* makes the error chunk.
GroqRaise ==
    /\ groq_pc \in {"idle", "next"}
    /\ groq_pc' = "error"
    /\ provider' = "raised"
    /\ UNCHANGED <<completion, content_buffer, chunk_count, event_ch>>
    /\ GroqFrame

\* The stream yields a chunk: a chunk with content is buffered and its
\* ChatChunk goes to the event channel, any other chunk is only counted.
GroqChunk(choices, empty) ==
    /\ groq_pc = "next"
    /\ Len(completion) < MaxChunks
    /\ LET c == Chunk(choices, IF empty THEN 0 ELSE Len(completion) + 1)
       IN /\ completion' = Append(completion, c)
          /\ chunk_count' = chunk_count + 1
          /\ IF HasDelta(c)
             THEN /\ content_buffer' = Append(content_buffer, c.content)
                  /\ groq_pc' = "send"
             ELSE /\ groq_pc' = "next"
                  /\ UNCHANGED content_buffer
    /\ UNCHANGED <<provider, event_ch>>
    /\ GroqFrame

\* await self._event_ch.asend(chat_chunk)
GroqSend ==
    /\ groq_pc = "send"
    /\ event_ch' = Append(event_ch,
                          ChatChunk("delta", content_buffer[Len(content_buffer)]))
    /\ groq_pc' = "sleep"
    /\ UNCHANGED <<completion, provider, content_buffer, chunk_count>>
    /\ GroqFrame

\* await asyncio.sleep(0) returns: the loop asks for the next chunk.
GroqSlept ==
    /\ groq_pc = "sleep"
    /\ groq_pc' = "next"
    /\ UNCHANGED <<completion, provider, content_buffer, chunk_count,
                   event_ch>>
    /\ GroqFrame

\* Bug variant: an empty response is left as it is.
GroqEndNoFallback ==
    /\ groq_pc = "next"
    /\ provider' = "ended"
    /\ groq_pc' = "done"
    /\ UNCHANGED <<completion, content_buffer, chunk_count, event_ch>>
    /\ GroqFrame

\* The stream ends: _run returns, after the fallback chunk if nothing was
\* received.
GroqEnd ==
    /\ groq_pc = "next"
    /\ provider' = "ended"
    /\ groq_pc' = IF Len(content_buffer) = 0 THEN "fallback" ELSE "done"
    /\ UNCHANGED <<completion, content_buffer, chunk_count, event_ch>>
    /\ GroqFrame

\* await self._event_ch.asend(fallback_chunk)
GroqFallbackSent ==
    /\ groq_pc = "fallback"
    /\ event_ch' = Append(event_ch, ChatChunk("fallback", 0))
    /\ groq_pc' = "done"
    /\ UNCHANGED <<completion, provider, content_buffer, chunk_count>>
    /\ GroqFrame

\* await self._event_ch.asend(error_chunk): _run returns.
GroqErrorSent ==
    /\ groq_pc = "error"
    /\ event_ch' = Append(event_ch, ChatChunk("error", 0))
    /\ groq_pc' = "done"
    /\ UNCHANGED <<completion, provider, content_buffer, chunk_count>>
    /\ GroqFrame

\* ------------------------------------------------------------ knowledge base

\* The snippets of the knowledge base.
Snippets == 1..MaxSnippets

\* What enrich_with_rag(query) can give: a ranked list of snippets, in which
\* a snippet may occur more than once.
RagResults == UNION {[1..n -> Snippets] : n \in 0..MaxResults}

\* The members of a list.
Elems(s) == {s[i] : i \in DOMAIN s}

\* [r for r in all_results if r not in self._seen_results]
NewResults(all_results, seen) ==
    SelectSeq(all_results, LAMBDA r : r \notin seen)

\* new_results = new_results[:2]  # Take top 2 new results
Top(new_results) ==
    SubSeq(new_results, 1,
           IF Len(new_results) < TopResults THEN Len(new_results)
           ELSE TopResults)

\* search_earkart_knowledge_base is called and awaits enrich_with_rag.
LookupCall(k) ==
    /\ lookup[k] = "idle"
    /\ lookup' = [lookup EXCEPT ![k] = "awaiting"]
    /\ UNCHANGED <<seen_results, returned>>
    /\ UNCHANGED <<call_vars, sock_vars, groq_vars>>

\* Bug variant: the seen results are cleared when nothing new is found.
LookupReturnClears(k, all_results) ==
    /\ lookup[k] = "awaiting"
    /\ lookup' = [lookup EXCEPT ![k] = "done"]
    /\ IF NewResults(all_results, seen_results) = <<>>
       THEN /\ returned' = Append(returned, [kind |-> "text",
                                             snippets |-> <<>>])
            /\ seen_results' = {}
       ELSE /\ returned' =
                Append(returned,
                       [kind |-> "list",
                        snippets |->
                            Top(NewResults(all_results, seen_results))])
            /\ seen_results' =
                seen_results \cup
                    Elems(Top(NewResults(all_results, seen_results)))
    /\ UNCHANGED <<call_vars, sock_vars, groq_vars>>

\* enrich_with_rag gives all_results; the rest of the tool runs without
\* another await: filter, return the "No new context" text or take the top
\* two, add them to the seen results and return them.
LookupReturn(k, all_results) ==
    /\ lookup[k] = "awaiting"
    /\ lookup' = [lookup EXCEPT ![k] = "done"]
    /\ IF NewResults(all_results, seen_results) = <<>>
       THEN /\ returned' = Append(returned, [kind |-> "text",
                                             snippets |-> <<>>])
            /\ UNCHANGED seen_results
       ELSE /\ returned' =
                Append(returned,
                       [kind |-> "list",
                        snippets |->
                            Top(NewResults(all_results, seen_results))])
            /\ seen_results' =
                seen_results \cup
                    Elems(Top(NewResults(all_results, seen_results)))
    /\ UNCHANGED <<call_vars, sock_vars, groq_vars>>

\* enrich_with_rag raises; the tool has no handler and returns nothing.
LookupRaise(k) ==
    /\ lookup[k] = "awaiting"
    /\ lookup' = [lookup EXCEPT ![k] = "raised"]
    /\ UNCHANGED <<seen_results, returned>>
    /\ UNCHANGED <<call_vars, sock_vars, groq_vars>>

\* ------------------------------------------------------------ environment
\* A second passes.
TickTo(cap) ==
    /\ WdAlive
    /\ now < cap
    /\ now' = now + 1
    /\ UNCHANGED <<session_started, wd_vars, term_vars, hangup_calls>>
    /\ UNCHANGED <<sock_vars, groq_vars, kb_vars>>

Tick == TickTo(MaxTime)

TickCall == TickTo(MaxCallTime)

\* The session ends (session._started becomes false).
SessionClose ==
    /\ session_started
    /\ session_started' = FALSE
    /\ UNCHANGED <<now, wd_vars, term_vars, hangup_calls>>
    /\ UNCHANGED <<sock_vars, groq_vars, kb_vars>>

\* ------------------------------------------------------------ specifications
\* The state when idle_call_watcher has entered its loop on a running session
\* and no tool has been invoked yet; the thresholds are the caller's choice.
InitWith(timeouts) ==
    /\ now = 0
    /\ session_started = TRUE
    /\ idle_timeout \in timeouts
    /\ warning_timeout \in timeouts
    /\ last_agent_finish_time = None
    /\ last_user_activity = 0
    /\ warning_sent = FALSE
    /\ elapsed_since_agent = 0
    /\ wd_pc = LoopTop(TRUE, 0).pc
    /\ wd_wake = LoopTop(TRUE, 0).wake
    /\ wd_log = <<>>
    /\ last_turn = "none"
    /\ assistant_seen = FALSE
    /\ warnings_since_turn = 0
    /\ hangup_calls = 0
    /\ call_state \in [call_started : BOOLEAN, call_end_recorded : {FALSE}]
    /\ speech_seq = 0
    /\ current_speech = 0
    /\ calls = [i \in Calls |-> [pc |-> "idle", tool |-> "none", speech |-> 0,
                                 log |-> <<>>]]
    /\ insert_calls = 0
    /\ end_recorded_sets = 0
    /\ ws = 0
    /\ ws_open = FALSE
    /\ inbox = <<>>
    /\ response_id_counter = 0
    /\ connection_lock = 0
    /\ request_lock = 0
    /\ request_waiters = <<>>
    /\ chat = [k \in Chats |-> [pc |-> "idle", conv |-> <<>>, id |-> 0,
                                out |-> <<>>, fin |-> FALSE, err |-> "none",
                                attempts |-> 0]]
    /\ srv = [r \in Chats |-> [state |-> "none", frames |-> 0, conn |-> 0,
                                flagged |-> FALSE]]
    /\ wire = <<>>
    /\ open_conns = {}
    /\ hs_read = 0
    /\ garbage_sent = 0
    /\ groq_pc = "new"
    /\ lk_messages = <<>>
    /\ groq_messages = <<>>
    /\ completion = <<>>
    /\ provider = "none"
    /\ content_buffer = <<>>
    /\ chunk_count = 0
    /\ event_ch = <<>>
    /\ seen_results = {}
    /\ lookup = [k \in Lookups |-> "idle"]
    /\ returned = <<>>

\* Any thresholds up to MaxTimeout seconds.
Init == InitWith(1..MaxTimeout)

\* warning_timeout = 1, idle_timeout = 2.
InitCall == InitWith({1, 2}) /\ warning_timeout < idle_timeout

\* A started call whose session has made a fresh adapter.
InitSocket == InitCall /\ call_state.call_started

WatchdogSteps ==
    \/ AssistantTurn
    \/ WdTick
    \/ WdWarningDone
    \/ WdSayFail
    \/ WdClosingDone
    \/ WdHangup
    \/ WdCancel

ToolSteps ==
    \/ \E i \in Calls, tool \in Tools : Invoke(i, tool)
    \/ \E i \in Calls, outcome \in {"ok", "raise"} : InsertDone(i, outcome)
    \/ \E i \in Calls : PlayoutDone(i)
    \/ \E i \in Calls : PlayoutFail(i)
    \/ \E i \in Calls : SayDone(i)
    \/ \E i \in Calls : SayFail(i)
    \/ SpeechStart
    \/ SpeechEnd

SocketSteps ==
    \/ \E k \in Chats, conv \in Turns : Chat(k, conv)
    \/ \E k \in Chats : AcquireSend(k)
    \/ \E k \in Chats : ConnectDone(k)
    \/ \E k \in Chats : ConnectFail(k)
    \/ \E k \in Chats : RecvHandshake(k)
    \/ \E k \in Chats : HandshakeFail(k)
    \/ \E k \in Chats : SendDone(k)
    \/ \E k \in Chats : SendFail(k)
    \/ \E k \in Chats : StartRead(k)
    \/ \E k \in Chats : AcquireRecv(k)
    \/ \E k \in Chats : Recv(k)
    \/ \E k \in Chats : Resume(k)
    \/ \E k \in Chats : RecvTimeout(k)
    \/ \E k \in Chats : RecvClosed(k)
    \/ \E k \in Chats : CancelChat(k)
    \/ \E type \in {"garbage", "binary"} : ServerGarbage(type)
    \/ ConnLost
    \/ Close
    \/ \E r \in Chats, empty, complete \in BOOLEAN :
           ServerSend(r, empty, complete, FALSE)

NextWatchdog == UserTurn \/ WatchdogSteps \/ Tick \/ SessionClose

NextTerm == ToolSteps \/ SessionClose

Next == WatchdogSteps \/ TickCall \/ ToolSteps \/ SessionClose

NextSocket == SocketSteps

\* Every chat so far is over: its stream has ended, or it has failed or been
\* cancelled.
TurnsOver == \A j \in Chats : chat[j].pc \in {"idle", "done", "failed", "cancelled"}

\* The turns of a call that come one after the other on a connection that
\* stays up: a chat is entered when the chats before it are over, its answer
\* is drained or its read times out; every frame that arrives is text.
TurnSteps ==
    \/ \E k \in Chats, conv \in Turns : TurnsOver /\ Chat(k, conv)
    \/ \E k \in Chats : ConnectDone(k)
    \/ \E k \in Chats : RecvHandshake(k)
    \/ \E k \in Chats : SendDone(k)
    \/ \E k \in Chats : StartRead(k)
    \/ \E k \in Chats : Recv(k)
    \/ \E k \in Chats : Resume(k)
    \/ \E k \in Chats : RecvTimeout(k)
    \/ \E r \in Chats, empty, complete \in BOOLEAN :
           ServerSend(r, empty, complete, FALSE)
    \/ ServerGarbage("garbage")

NextTurns == TurnSteps

\* Chats entered at any time, up to the point where their request is sent
\* and their stream returned; nothing is read.
ConnectSteps ==
    \/ \E k \in Chats, conv \in Turns : Chat(k, conv)
    \/ \E k \in Chats : AcquireSend(k)
    \/ \E k \in Chats : ConnectDone(k)
    \/ \E k \in Chats : ConnectFail(k)
    \/ \E k \in Chats : RecvHandshake(k)
    \/ \E k \in Chats : HandshakeFail(k)
    \/ \E k \in Chats : SendDone(k)
    \/ \E k \in Chats : SendFail(k)
    \/ \E k \in Chats : CancelChat(k)
    \/ ConnLost
    \/ Close

NextConnect == ConnectSteps

\* Requests with any conversation, one after the other, up to the sending;
\* connects and sends may fail, reads time out and the connection may be lost.
RequestSteps ==
    \/ \E k \in Chats, conv \in Conversations : TurnsOver /\ Chat(k, conv)
    \/ \E k \in Chats : ConnectDone(k)
    \/ \E k \in Chats : ConnectFail(k)
    \/ \E k \in Chats : RecvHandshake(k)
    \/ \E k \in Chats : HandshakeFail(k)
    \/ \E k \in Chats : SendDone(k)
    \/ \E k \in Chats : SendFail(k)
    \/ \E k \in Chats : StartRead(k)
    \/ \E k \in Chats : RecvTimeout(k)
    \/ \E k \in Chats : RecvClosed(k)
    \/ ConnLost

NextRequest == RequestSteps

\* The consumer of every chat so far has left it: its stream has ended, has
\* failed or has been abandoned.
ConsumersGone ==
    \A j \in Chats :
        chat[j].pc \in {"idle", "done", "failed", "abandoned", "closed"}

\* The turns of a call whose consumers may abandon a stream part-way; the
\* next chat is entered when the consumer of the one before has left.
AbandonSteps ==
    \/ \E k \in Chats, conv \in Turns : ConsumersGone /\ Chat(k, conv)
    \/ \E k \in Chats : AcquireSend(k)
    \/ \E k \in Chats : ConnectDone(k)
    \/ \E k \in Chats : RecvHandshake(k)
    \/ \E k \in Chats : SendDone(k)
    \/ \E k \in Chats : StartRead(k)
    \/ \E k \in Chats : Recv(k)
    \/ \E k \in Chats : Resume(k)
    \/ \E k \in Chats : Abandon(k)
    \/ \E k \in Chats : Finalise(k)
    \/ \E r \in Chats, empty, complete \in BOOLEAN :
           ServerSend(r, empty, complete, FALSE)

NextAbandon == AbandonSteps

\* The turns of a call, one after the other, each drained to its end, with a
\* server that may set the end_call flag in any frame of an answer.
EndCallSteps ==
    \/ \E k \in Chats, conv \in Turns : TurnsOver /\ Chat(k, conv)
    \/ \E k \in Chats : ConnectDone(k)
    \/ \E k \in Chats : RecvHandshake(k)
    \/ \E k \in Chats : SendDone(k)
    \/ \E k \in Chats : StartRead(k)
    \/ \E k \in Chats : Recv(k)
    \/ \E k \in Chats : Resume(k)
    \/ \E r \in Chats, empty, complete, end_call \in BOOLEAN :
           ServerSend(r, empty, complete, end_call)

NextEndCall == EndCallSteps

\* One chat() of the Groq adapter and the run of GroqLLMStream._run against a
\* provider that yields any chunks and ends or raises at any point.
GroqSteps ==
    \/ \E items \in GroqTurns : GroqChat(items)
    \/ GroqCreate
    \/ GroqRaise
    \/ \E choices, empty \in BOOLEAN : GroqChunk(choices, empty)
    \/ GroqSend
    \/ GroqSlept
    \/ GroqEnd
    \/ GroqFallbackSent
    \/ GroqErrorSent

NextGroq == GroqSteps

\* chat() of the Groq adapter on any conversation.
ConvertSteps ==
    /\ groq_pc = "new"
    /\ \E items \in GroqConversations : GroqChat(items)

NextConvert == ConvertSteps

\* The idle watcher of one call with its session; no tool is invoked.
SpecWatchdog == Init /\ [][NextWatchdog]_vars

\* The agent's tools on one call; the watcher never gets to run.
SpecTerm == InitCall /\ [][NextTerm]_vars

\* One call whose caller stays silent: the session, its idle watcher and the
\* agent's tools.
Spec == InitCall /\ [][Next]_vars

\* The chat() calls of one call on its socket adapter, and the server.
SpecSocket == InitSocket /\ [][NextSocket]_vars

\* The turns of one call on its socket adapter, one after the other, with a
\* server that may answer late.
SpecTurns == InitSocket /\ [][NextTurns]_vars

\* The turns of one call on its socket adapter with end_call flags in the
\* server's frames.
SpecEndCall == InitSocket /\ [][NextEndCall]_vars

\* The turns of one call on its socket adapter with consumers that may
\* abandon a stream.
SpecAbandon == InitSocket /\ [][NextAbandon]_vars

\* The requests of the turns of one call, whatever the conversation.
SpecRequest == InitSocket /\ [][NextRequest]_vars

\* Concurrent chats on one socket adapter up to the sending of the request.
SpecConnect == InitSocket /\ [][NextConnect]_vars

\* One turn of a started call answered through the Groq adapter.
SpecGroq == InitSocket /\ [][NextGroq]_vars

\* The conversion of the conversation in chat() of the Groq adapter.
SpecConvert == InitSocket /\ [][NextConvert]_vars

\* The knowledge-base tool alone: lookups of one session, which may overlap.
LookupSteps ==
    \/ \E k \in Lookups : LookupCall(k)
    \/ \E k \in Lookups : \E all_results \in RagResults :
           LookupReturn(k, all_results)
    \/ \E k \in Lookups : LookupRaise(k)

NextLookup == LookupSteps

SpecLookup == InitSocket /\ [][NextLookup]_vars

\* ------------------------------------------------------------ properties
Has(log, x) == \E k \in 1..Len(log) : log[k] = x

\* What the watcher has said and done to the call so far.
WdDid == SelectSeq(wd_log, LAMBDA x : x \in {"warning", "closing", "hangup"})

\* C1: as long as no assistant turn event has been delivered, the watcher has
\* spoken no warning and no closing line, has not called hangup and is not in
\* the middle of saying anything: last_agent_finish_time is still unset and
\* every tick so far was skipped.
C1_IdleClockInactive ==
    ~assistant_seen =>
        /\ last_agent_finish_time = None
        /\ WdDid = <<>>
        /\ wd_pc \in {"sleeping", "stopped", "cancelled"}

\* C1 witness: user turns and ticks have gone by without an assistant turn.
C1_Witness ==
    /\ ~assistant_seen
    /\ last_turn = "user"
    /\ last_user_activity >= 2
    /\ wd_pc = "sleeping"
    /\ wd_wake > last_user_activity + 1

\* The watcher's warning has just finished.
WarningSpoken == Len(wd_log') > Len(wd_log) /\ wd_log'[Len(wd_log')] = "warning"

\* A tick on which the warning is due: the clock is anchored, the user has not
\* spoken since, the elapsed time exceeds warning_timeout, no warning is marked
\* as sent and the session runs.
WarningTick ==
    /\ wd_pc = "sleeping"
    /\ wd_pc' # "sleeping" \/ wd_wake' # wd_wake
    /\ wd_pc' # "cancelled"
    /\ session_started
    /\ last_agent_finish_time # None
    /\ last_user_activity <= last_agent_finish_time
    /\ now - last_agent_finish_time > warning_timeout
    /\ ~warning_sent

\* C2: between two turn events at most one warning is spoken; it is spoken on
\* the first tick on which the elapsed time exceeds warning_timeout; when it has
\* finished, warning_sent is set and last_agent_finish_time is the time it
\* finished; and with warning_timeout < idle_timeout the closing announcement
\* after a silent assistant turn is preceded by exactly one warning.
C2_ExactlyOneWarning ==
    [][/\ warnings_since_turn' <= 1
       /\ WarningTick => wd_pc' = "say_warning"
       /\ WarningSpoken => warning_sent' /\ last_agent_finish_time' = now'
       /\ (/\ wd_pc # "say_closing"
           /\ wd_pc' = "say_closing"
           /\ last_turn = "assistant"
           /\ warning_timeout < idle_timeout) => warnings_since_turn' = 1]_vars

\* C2 witness: an assistant turn, silence, one warning, then the call was
\* hung up for idleness.
C2_Witness ==
    /\ last_turn = "assistant"
    /\ warning_timeout < idle_timeout
    /\ wd_log = <<"warning", "closing", "hangup">>
    /\ warnings_since_turn = 1
    /\ warning_sent

\* The watcher has taken its timeout branch.
WdTimedOut == wd_pc \in {"say_closing", "pause"} \/ Has(wd_log, "closing")

\* C3: once the watcher has taken its timeout branch, however one end_call
\* request interleaves with it, the call is terminated once (one hangup) and
\* call_end_recorded is set at most once.
C3_TimeoutTerminatesOnce ==
    (/\ WdTimedOut
     /\ Cardinality({i \in Calls : calls[i].pc # "idle"}) = 1
     /\ \A i \in Calls : calls[i].tool \in {"none", "end_call"})
        => hangup_calls <= 1 /\ end_recorded_sets <= 1

\* C4: hangup() has been called at most once on the call.
C4_HangupAtMostOnce == hangup_calls <= 1

\* An invocation that did none of the termination side effects.
NoSideEffects(c) ==
    /\ ~Has(c.log, "insert")
    /\ ~Has(c.log, "say")
    /\ ~Has(c.log, "hangup")

\* C5: when end_call is invoked after an earlier end_call on the same
\* CallState has returned, the second invocation records nothing, speaks no
\* closing line and does not hang up.
C5_SecondEndCallNoEffects ==
    [][\A i, j \in Calls :
          (/\ i # j
           /\ calls[i].tool = "end_call"
           /\ calls[i].pc = "returned"
           /\ calls[j].pc = "idle"
           /\ calls'[j].tool = "end_call") => NoSideEffects(calls'[j])]_vars

\* C6: call_end_recorded is assigned True at most once, it is true exactly
\* when that assignment has run, and no step sets it back to false.
C6_EndRecordedOnce ==
    [][/\ end_recorded_sets' <= 1
       /\ call_state'.call_end_recorded <=> end_recorded_sets' = 1
       /\ call_state.call_end_recorded => call_state'.call_end_recorded]_vars

\* C6 witness: every tool invocation has gone through record_call_end and
\* returned, the later ones after the end of the call was recorded.
C6_Witness ==
    /\ call_state.call_end_recorded
    /\ \A i \in Calls : calls[i].pc = "returned"

\* C7: while call_started is false, an end_call request is a no-op: nothing is
\* recorded, call_end_recorded stays false, no closing line is spoken and
\* hangup is not called.
C7_NotStartedNoOp ==
    ~call_state.call_started =>
        /\ ~call_state.call_end_recorded
        /\ \A i \in Calls :
               calls[i].tool = "end_call" => NoSideEffects(calls[i])

\* C8: insert_call_end_async is invoked at most once however many callers
\* interleave, and while a caller awaits it call_end_recorded is already true.
C8_InsertAtMostOnce ==
    /\ insert_calls <= 1
    /\ \A i \in Calls : calls[i].pc = "insert" => call_state.call_end_recorded

\* C8 witness: a second caller went through record_call_end while the first
\* one was still awaiting the insert.
C8_Witness ==
    /\ call_state.call_started
    /\ calls[1].pc = "insert"
    /\ calls[2].pc # "idle"
    /\ insert_calls = 1

\* C9: after the persistence call has raised in an invocation, the flag is
\* still true and the insert is not retried, the exception has not left
\* record_call_end (an end_call that raised did so in the wait for the playout
\* or in the closing line), and an end_call that returned has spoken the
\* closing line and hung up.
C9_PersistenceFailureNotFatal ==
    \A i \in Calls :
        Has(calls[i].log, "insert_failed") =>
            /\ call_state.call_end_recorded
            /\ insert_calls = 1
            /\ calls[i].pc = "raised" =>
                   \/ Has(calls[i].log, "say")
                   \/ Has(calls[i].log, "playout_failed")
            /\ calls[i].pc = "returned" => Has(calls[i].log, "hangup")
            /\ (calls[i].tool = "end_call" /\ calls[i].pc = "returned")
                   => Has(calls[i].log, "say")

\* C9 witness: an end_call whose insert raised has returned.
C9_Witness ==
    \E i \in Calls :
        /\ calls[i].tool = "end_call"
        /\ calls[i].pc = "returned"
        /\ Has(calls[i].log, "insert_failed")

\* s is an initial part of t.
IsPrefix(s, t) == Len(s) <= Len(t) /\ \A k \in 1..Len(s) : s[k] = t[k]

\* The orders in which a run of end_call may do its steps.
EndCallOrders ==
    { <<"record">> \o ins \o play \o <<"say", "hangup">> :
          ins \in {<<>>, <<"insert">>, <<"insert", "insert_failed">>},
          play \in {<<>>, <<"playout">>, <<"playout_failed">>} }

\* Invocation i starts the closing line in this step.
ClosingStarts(i) ==
    /\ calls'[i].tool = "end_call"
    /\ ~Has(calls[i].log, "say")
    /\ Has(calls'[i].log, "say")

\* C10: in every run of end_call the record is attempted first, then the
\* playout of an utterance found in flight is awaited, then the closing line
\* is spoken, then hangup is called; the closing line starts either when no
\* utterance is in flight or when the awaited utterance has played out.
C10_EndCallOrder ==
    [][\A i \in Calls :
          /\ calls'[i].tool = "end_call" =>
                 \E t \in EndCallOrders : IsPrefix(calls'[i].log, t)
          /\ ClosingStarts(i) =>
                 \/ current_speech' = 0 /\ ~Has(calls'[i].log, "playout")
                 \/ /\ calls[i].pc = "playout"
                    /\ current_speech # calls[i].speech]_vars

\* C10 witness: an end_call that recorded, waited for an utterance in flight,
\* spoke the closing line and hung up.
C10_Witness ==
    \E i \in Calls :
        calls[i].log = <<"record", "insert", "playout", "say", "hangup">>

\* C11: no exception leaves end_call: whatever fails while it waits for the
\* speech in flight, speaks the closing line or hangs up, the invocation
\* returns to its caller.
C11_NoExceptionEscapes ==
    \A i \in Calls : calls[i].tool = "end_call" => calls[i].pc # "raised"

\* C12: after the watcher has hung up a started call for idleness, the end of
\* the call has been recorded (call_end_recorded is true).
C12_IdleTimeoutRecordsEnd ==
    (Has(wd_log, "hangup") /\ call_state.call_started)
        => call_state.call_end_recorded

\* C13: every hangup of the watcher comes right after a closing line that was
\* spoken to the end in the same run, and the watcher is in the pause before
\* the hangup only when the closing line has just been spoken.
C13_ClosingBeforeHangup ==
    /\ \A k \in 1..Len(wd_log) :
           wd_log[k] = "hangup" => k > 1 /\ wd_log[k - 1] = "closing"
    /\ wd_pc = "pause" =>
           Len(wd_log) > 0 /\ wd_log[Len(wd_log)] = "closing"

\* C13 witness: thresholds with no warning before the timeout; the watcher
\* spoke the closing line and hung up.
C13_Witness ==
    /\ wd_log = <<"closing", "hangup">>
    /\ wd_pc = "stopped"
    /\ hangup_calls = 1

\* C14: with warning_timeout < idle_timeout, when the watcher turns to the
\* closing line after a warning, at least idle_timeout seconds have passed
\* since the anchor, which is no earlier than the end of the latest warning.
C14_FullWindowAfterWarning ==
    [][(/\ warning_timeout < idle_timeout
        /\ wd_pc # "say_closing"
        /\ wd_pc' = "say_closing"
        /\ Has(wd_log', "warning"))
           => now' - last_agent_finish_time' >= idle_timeout]_vars

\* The latest user turn is later than the anchor.
Paused ==
    /\ last_agent_finish_time # None
    /\ last_user_activity > last_agent_finish_time

\* This step is an assistant turn event.
AssistantStep ==
    /\ last_turn' = "assistant"
    /\ last_agent_finish_time' = now
    /\ wd_log' = wd_log
    /\ wd_pc' = wd_pc

\* C15 as stated: while the latest user turn is later than the anchor the
\* watcher completes no warning, no closing line and no hangup, and this
\* lasts until an assistant turn event moves the anchor.
C15_PausedUntilAssistantTurn ==
    [][Paused => /\ WdDid' = WdDid
                 /\ Paused' \/ AssistantStep]_vars

\* C15 amended: a tick that finds the latest user turn later than the anchor
\* is skipped (no warning and no closing line start on it, nothing is said or
\* hung up), and between ticks that condition ends only with an assistant
\* turn event.
C15_PausedTicksSkipped ==
    [][(Paused /\ wd_pc = "sleeping") =>
           /\ wd_pc' \in {"sleeping", "stopped", "cancelled"}
           /\ WdDid' = WdDid
           /\ Paused' \/ AssistantStep]_vars

\* C15 witness: the user spoke after the agent, and a later tick, past both
\* thresholds, was skipped.
C15_Witness ==
    /\ Paused
    /\ wd_pc = "sleeping"
    /\ wd_wake - CheckInterval > last_user_activity
    /\ wd_wake - CheckInterval - last_agent_finish_time > idle_timeout
    /\ wd_wake - CheckInterval - last_agent_finish_time > warning_timeout
    /\ WdDid = <<>>

\* C16: once session.say has failed in the watcher, the watcher has stopped
\* by leaving its loop (no exception left it) and has said nothing more and
\* not hung up since.
C16_SayFailureStopsWatchdog ==
    \A k \in 1..Len(wd_log) :
        wd_log[k] = "say_failed" => k = Len(wd_log) /\ wd_pc = "stopped"

\* C16 witness: the warning was spoken and the closing line failed.
C16_Witness ==
    /\ wd_log = <<"warning", "say_failed">>
    /\ warning_timeout < idle_timeout
    /\ session_started

\* C17: once the watcher task has been cancelled it has left its loop and
\* has spoken no warning or closing line and called no hangup since; a
\* cancelled watcher has never called hangup.
C17_CancelStopsWatchdog ==
    \A k \in 1..Len(wd_log) :
        wd_log[k] = "cancel" =>
            /\ k = Len(wd_log)
            /\ ~WdAlive
            /\ ~Has(wd_log, "hangup")

\* C17 witness: the watcher was cancelled in the pause before the hangup.
C17_Witness ==
    /\ wd_log = <<"closing", "cancel">>
    /\ ~WdAlive
    /\ hangup_calls = 0

\* The watcher was cancelled in the sleep between the closing line and the
\* hangup.
CancelledInPause ==
    /\ Len(wd_log) >= 2
    /\ wd_log[Len(wd_log)] = "cancel"
    /\ wd_log[Len(wd_log) - 1] = "closing"

\* C18 as stated: a watcher cancelled in the sleep before the hangup ends
\* without an exception, the cancellation error included.
C18_CancelInPauseDoesNotRaise == CancelledInPause => wd_pc = "stopped"

\* C18 amended: a watcher cancelled in the sleep before the hangup ends
\* without calling hangup, and it ends with the cancellation error, which is
\* re-raised to its owner.
C18_CancelInPauseReraised ==
    CancelledInPause => wd_pc = "cancelled" /\ ~Has(wd_log, "hangup")

\* C18 witness: warning, closing line, then the cancel during the pause.
C18_Witness ==
    /\ wd_log = <<"warning", "closing", "cancel">>
    /\ wd_pc = "cancelled"

\* C19: at most one request/response cycle is in flight on the adapter: no
\* request is on the wire while another request's response has not been
\* drained to its end.
C19_OneCycleInFlight ==
    Cardinality({k \in Chats : InFlight(chat[k])}) <= 1

\* The generator of chat k reads a frame that is not for its request and
\* ignores it.
Discards(k) ==
    /\ chat[k].pc = "recv"
    /\ inbox # <<>>
    /\ inbox' = Tail(inbox)
    /\ ~Matches(Head(inbox), chat[k].id)

\* C20: no reader discards a frame of another chat's outstanding request, and
\* no reader times out on a request the server has answered completely, so
\* each stream gets all frames of its own request and completes.
C20_NoFrameStolen ==
    [][\A k \in Chats :
          /\ Discards(k) =>
                 \A j \in Chats \ {k} :
                     ~(InFlight(chat[j]) /\ chat[j].id = Head(inbox).id)
          /\ (chat[k].pc = "recv" /\ chat'[k].err = "timeout") =>
                 srv[chat[k].id].state # "done"]_vars

\* What a frame read by the stream of the request with id `expected` adds to
\* the text the stream yields.
Delta(f, expected) ==
    IF f.type = "response" /\ f.id = expected /\ f.content # 0
    THEN <<f.content>> ELSE <<>>

\* The frame is the one that carries the completion flag for the request.
Completes(f, expected) ==
    f.type = "response" /\ f.id = expected /\ f.complete

\* C21: the text a response stream yields grows only by reading a frame, and
\* then by exactly the non-empty content of that frame if it is a response
\* frame with the id of the stream's request, and by nothing for any other
\* frame; the frame with the completion flag is the last one the stream reads.
C21_YieldsOwnFramesInOrder ==
    [][\A k \in Chats :
          /\ (chat[k].pc = "recv" /\ inbox # <<>> /\ inbox' = Tail(inbox)) =>
                 /\ chat'[k].out = chat[k].out \o Delta(Head(inbox), chat[k].id)
                 /\ Completes(Head(inbox), chat[k].id) =>
                        \/ chat'[k].pc = "done"
                        \/ chat'[k].pc = "yielded" /\ chat'[k].fin
          /\ ~(chat[k].pc = "recv" /\ inbox # <<>>) =>
                 chat'[k].out = chat[k].out
          /\ (chat[k].pc = "yielded" /\ chat[k].fin) =>
                 chat'[k].pc \in {"yielded", "done"}
          /\ chat[k].pc = "done" => chat'[k] = chat[k]]_vars

\* C21 witness: request 1 timed out and the server answered it completely
\* afterwards; the stream of request 2 has read all frames that arrived and
\* has ended with the two deltas of its own answer.
C21_Witness ==
    /\ chat[1].err = "timeout"
    /\ srv[1].state = "done"
    /\ inbox = <<>>
    /\ chat[2].pc = "done"
    /\ Len(chat[2].out) = 2

\* C22: the response_ids of the requests sent are strictly increasing in the
\* order of sending, each is the id its chat was given, and no two chats are
\* given the same id, whether or not their request got sent.
C22_ResponseIdsIncrease ==
    /\ \A i, j \in 1..Len(wire) :
           i < j => wire[i].response_id < wire[j].response_id
    /\ \A i \in 1..Len(wire) : wire[i].response_id = chat[wire[i].chat].id
    /\ \A j, k \in Chats :
           (j # k /\ chat[j].id # 0) => chat[j].id # chat[k].id
    /\ \A k \in Chats : chat[k].id <= response_id_counter

\* C22 witness: the read of request 1 timed out, the connection was lost, and
\* request 2 has been sent on a new connection.
C22_Witness ==
    /\ Len(wire) = 2
    /\ chat[1].err = "timeout"
    /\ wire[1].conn # wire[2].conn

\* The conversation has an item with role user.
HasUser(conv) == \E p \in 1..Len(conv) : conv[p].role = "user"

\* C23: the transcript of every request sent has exactly one entry, with role
\* user and the joined content of the last user-role item of the chat's
\* conversation; a chat whose conversation has no user-role item fails with
\* an error once it gets to build its request, is given no id and sends
\* nothing, and the counter counts the chats that were given an id.
C23_TranscriptIsLatestUser ==
    /\ \A i \in 1..Len(wire) :
           LET c == chat[wire[i].chat].conv
               t == wire[i].transcript
           IN /\ Len(t) = 1
              /\ t[1].role = "user"
              /\ \E p \in 1..Len(c) :
                     /\ c[p].role = "user"
                     /\ \A q \in (p + 1)..Len(c) : c[q].role # "user"
                     /\ t[1].content = JoinParts(c[p].content)
    /\ \A k \in Chats :
           (chat[k].pc # "idle" /\ ~HasUser(chat[k].conv)) =>
               /\ chat[k].pc \in {"connecting", "config", "greeting", "failed"}
               /\ chat[k].err \in {"none", "connect", "closed", "no_user"}
               /\ chat[k].id = 0
               /\ \A i \in 1..Len(wire) : wire[i].chat # k
    /\ \A k \in Chats : chat[k].err = "no_user" => ~HasUser(chat[k].conv)
    /\ response_id_counter = Cardinality({k \in Chats : chat[k].id # 0})

\* C23 witness: the chat with an assistant-only conversation has failed, the
\* next one, whose two items are both from the user, has sent the second
\* item's text under the first id.
C23_Witness ==
    /\ chat[1].err = "no_user"
    /\ Len(chat[1].conv) = 2
    /\ Len(wire) = 1
    /\ wire[1].response_id = 1
    /\ chat[2].conv[1].role = "user"
    /\ wire[1].transcript[1].content = <<2, 0, 12>>

\* C24: a response stream never yields an empty delta.  Reading the frame of
\* its request that carries the completion flag yields nothing and ends the
\* stream if the frame's content is empty, and else yields that content once,
\* after which the stream ends without reading on.
C24_NoEmptyDelta ==
    [][\A k \in Chats :
          /\ \A i \in 1..Len(chat'[k].out) : chat'[k].out[i] # 0
          /\ (/\ chat[k].pc = "recv" /\ inbox # <<>> /\ inbox' = Tail(inbox)
              /\ Completes(Head(inbox), chat[k].id)) =>
                 IF Head(inbox).content = 0
                 THEN /\ chat'[k].pc = "done"
                      /\ chat'[k].out = chat[k].out
                      /\ chat'[k].err = "none"
                 ELSE /\ chat'[k].pc = "yielded"
                      /\ chat'[k].fin
                      /\ chat'[k].out = Append(chat[k].out, Head(inbox).content)
          /\ (chat[k].pc = "yielded" /\ chat[k].fin /\ chat'[k] # chat[k]) =>
                 /\ chat'[k].pc = "done"
                 /\ chat'[k].out = chat[k].out
                 /\ chat'[k].err = "none"
                 /\ inbox' = inbox]_vars

\* C24 witness: the stream has ended on a complete frame without content,
\* after one delta.
C24_Witness ==
    \E k \in Chats :
        /\ chat[k].pc = "done"
        /\ ~chat[k].fin
        /\ Len(chat[k].out) = 1
        /\ srv[chat[k].id].state = "done"

\* C25: a read that times out fails its chat, leaves the request lock and
\* leaves the connection as it is; a chat entered while the connection is
\* open does not connect; a request that follows a timed-out one goes out on
\* the same connection; and a frame that is not of the reader's own request
\* changes nothing for the reader.
C25_TimeoutKeepsConnection ==
    [][\A k \in Chats :
          /\ (chat[k].err # "timeout" /\ chat'[k].err = "timeout") =>
                 /\ chat[k].pc = "recv"
                 /\ chat'[k].pc = "failed"
                 /\ request_lock = k /\ request_lock' # k
                 /\ ws_open /\ ws_open' /\ ws' = ws
                 /\ open_conns' = open_conns
          /\ (chat[k].pc = "idle" /\ chat'[k].pc # "idle" /\ ws_open) =>
                 /\ chat'[k].pc # "connecting"
                 /\ chat'[k].attempts = 0
          /\ \A i, j \in 1..Len(wire') :
                 (i < j /\ chat'[wire'[i].chat].err = "timeout") =>
                     wire'[j].conn = wire'[i].conn
          /\ (/\ chat[k].pc = "recv" /\ inbox # <<>> /\ inbox' = Tail(inbox)
              /\ Head(inbox).type = "response"
              /\ Head(inbox).id # chat[k].id) =>
                 chat'[k] = chat[k]]_vars

\* C25 witness: the read of request 1 timed out; request 2 went out on the
\* same connection without a connect, frames of request 1 arrived late, and
\* the stream of request 2 has read everything and ended with text.
C25_Witness ==
    /\ chat[1].err = "timeout"
    /\ chat[1].attempts = 1
    /\ chat[2].attempts = 0
    /\ Len(wire) = 2
    /\ wire[1].conn = wire[2].conn
    /\ srv[1].frames > 0
    /\ inbox = <<>>
    /\ chat[2].pc = "done"
    /\ chat[2].out # <<>>

\* C26: at most one connection of the adapter is open, and it is the current
\* one.  A connection is made only by a chat that is inside its request,
\* holding both locks, when there is no open connection; a chat that gets to
\* _ensure_connection while the connection is open does not connect; and at
\* most one chat is connecting or in the handshake.
C26_OneConnection ==
    [][/\ Cardinality(open_conns') <= 1
       /\ open_conns' \subseteq {ws'}
       /\ ws_open' <=> open_conns' # {}
       /\ Cardinality({k \in Chats :
              chat'[k].pc \in {"connecting", "config", "greeting"}}) <= 1
       /\ ws' # ws =>
              \E k \in Chats :
                  /\ chat[k].pc = "connecting"
                  /\ request_lock = k /\ connection_lock = k
                  /\ ~ws_open
                  /\ ws' = ws + 1
       /\ \A k \in Chats :
              (chat[k].pc # "connecting" /\ chat'[k].pc = "connecting") =>
                  /\ chat[k].pc \in {"idle", "wait_send"}
                  /\ ~ws_open]_vars

\* C26 witness: two chats were entered before there was a connection; the
\* first has made the connection and is in the handshake, the second waits
\* for the request lock and has not connected.
C26_Witness ==
    /\ chat[1].pc = "greeting"
    /\ chat[1].attempts = 1
    /\ chat[2].pc = "wait_send"
    /\ chat[2].attempts = 0
    /\ request_waiters = <<2>>
    /\ open_conns = {1}

\* C27: every request is sent on a connection whose two handshake frames
\* (configuration, greeting) have been read before.
C27_HandshakeBeforeRequest ==
    \A i \in 1..Len(wire) : wire[i].hs_read = 2

\* C28: a reader that gets a frame that is no JSON, or a frame with another
\* response_id than its own, goes on reading: its stream does not end, no
\* error is raised, the text yielded so far is unchanged and it keeps the
\* request lock.
C28_DesyncNeverFatal ==
    [][\A k \in Chats :
          (/\ chat[k].pc = "recv" /\ inbox # <<>> /\ inbox' = Tail(inbox)
           /\ \/ JsonLoads(Head(inbox)) # "ok"
              \/ Head(inbox).id # chat[k].id) =>
              /\ chat'[k] = chat[k]
              /\ request_lock' = k]_vars

\* C29: a chat whose connect fails ends failed with that error, having
\* connected once, with no id and no request sent; the failing step gives up
\* both locks and makes no connection; no chat connects more than once; and a
\* chat that gets to _ensure_connection while there is no open connection
\* starts a connect of its own.
C29_ConnectFailureRaised ==
    [][\A k \in Chats :
          /\ chat'[k].attempts <= 1
          /\ chat'[k].err = "connect" =>
                 /\ chat'[k].pc = "failed"
                 /\ chat'[k].attempts = 1
                 /\ chat'[k].id = 0
                 /\ \A i \in 1..Len(wire') : wire'[i].chat # k
          /\ (chat[k].err # "connect" /\ chat'[k].err = "connect") =>
                 /\ chat[k].pc = "connecting"
                 /\ request_lock' # k /\ connection_lock' = 0
                 /\ ws' = ws /\ ws_open' = ws_open /\ wire' = wire
          /\ (/\ chat[k].pc \in {"idle", "wait_send"}
              /\ chat'[k].pc \notin {"idle", "wait_send", "cancelled"}
              /\ ~ws_open) =>
                 chat'[k].pc = "connecting"]_vars

\* C29 witness: the connect of chat 1 failed; chat 2 has connected and sent
\* its request, the first one of the adapter.
C29_Witness ==
    /\ chat[1].pc = "failed"
    /\ chat[1].err = "connect"
    /\ chat[2].pc = "stream"
    /\ chat[2].attempts = 1
    /\ Len(wire) = 1
    /\ wire[1].chat = 2
    /\ wire[1].response_id = 1

\* The deltas with content among the chunks the provider has yielded.
Partials == SelectSeq(completion, LAMBDA c : c.choices /\ c.content # 0)

\* C30: no exception leaves _run; and once the provider has raised, the
\* chunks emitted are the deltas with content it yielded before, in order,
\* followed, when _run has returned, by one apology chunk and nothing else.
C30_ApologyAfterProviderError ==
    /\ groq_pc # "escaped"
    /\ provider = "raised" =>
           /\ groq_pc \in {"error", "done"}
           /\ Len(event_ch) = Len(Partials) + (IF groq_pc = "done" THEN 1 ELSE 0)
           /\ \A i \in 1..Len(Partials) :
                  event_ch[i] = ChatChunk("delta", Partials[i].content)
           /\ groq_pc = "done" => event_ch[Len(event_ch)].kind = "error"

\* C30 witness: the provider raised after two deltas with content and one
\* chunk without; _run has returned after the two deltas and the apology.
C30_Witness ==
    /\ provider = "raised"
    /\ groq_pc = "done"
    /\ Len(completion) = 3
    /\ Len(event_ch) = 3
    /\ event_ch[3].kind = "error"

\* C31: a run of _run that is over has emitted at least one chunk and no
\* exception has left it; the fallback chunk is emitted only for a stream
\* that ended normally without any content, and is then the only chunk.
C31_NeverSilent ==
    /\ groq_pc # "escaped"
    /\ groq_pc = "done" => Len(event_ch) >= 1
    /\ (groq_pc = "done" /\ provider = "ended" /\ Partials = <<>>) =>
           event_ch = <<ChatChunk("fallback", 0)>>
    /\ \A i \in 1..Len(event_ch) :
           event_ch[i].kind = "fallback" =>
               /\ provider = "ended"
               /\ Partials = <<>>
               /\ Len(event_ch) = 1

\* C31 witness: the provider yielded chunks, none with content, and ended;
\* _run has returned after the fallback chunk.
C31_Witness ==
    /\ groq_pc = "done"
    /\ provider = "ended"
    /\ Len(completion) = MaxChunks
    /\ event_ch = <<ChatChunk("fallback", 0)>>

\* The message has content left after stripping.
HasText(msg) == Strip(RawContent(msg)) # <<>>

\* C32: the list that _convert_messages returns has one entry for every
\* input message with content left after stripping, in the order of the
\* input, with that stripped flat content and a role that is one of user,
\* assistant, system; the other messages are dropped.
C32_ConvertNormalises ==
    groq_pc # "new" =>
        LET kept == SelectSeq(lk_messages, HasText)
        IN /\ Len(groq_messages) = Len(kept)
           /\ \A i \in 1..Len(groq_messages) :
                  /\ groq_messages[i].role \in {"user", "assistant", "system"}
                  /\ groq_messages[i].content # <<>>
                  /\ groq_messages[i].content = Strip(RawContent(kept[i]))

\* The chunks emitted that carry a delta of the provider.
Forwarded == SelectSeq(event_ch, LAMBDA e : e.kind = "delta")

\* C33: the deltas emitted are the contents of the provider's chunks with
\* content, one for one and in order, ahead of any other chunk emitted; none
\* is missing except the one of the chunk just read, which is emitted before
\* the next chunk is read; chunks without choices or content add nothing.
C33_ForwardedOneToOne ==
    /\ Len(Forwarded) =
           Len(Partials) - (IF groq_pc = "send" THEN 1 ELSE 0)
    /\ \A i \in 1..Len(Forwarded) :
           /\ event_ch[i] = Forwarded[i]
           /\ Forwarded[i].content = Partials[i].content
           /\ Forwarded[i].content # 0
    /\ groq_pc = "send" => HasDelta(completion[Len(completion)])

\* C33 witness: of three chunks the first and the third had content, the
\* second none; two deltas have been emitted, with the contents 1 and 3.
C33_Witness ==
    /\ groq_pc = "sleep"
    /\ Len(completion) = 3
    /\ ~HasDelta(completion[2])
    /\ event_ch = <<ChatChunk("delta", 1), ChatChunk("delta", 3)>>

\* The watcher wakes from its sleep and runs a tick.
TickStep ==
    /\ wd_pc = "sleeping"
    /\ wd_pc' # "cancelled"
    /\ <<wd_pc', wd_wake'>> # <<wd_pc, wd_wake>>

\* C34: a tick that finds session._started false stops the watcher, with
\* nothing said and no hangup; the watcher starts to say the warning or the
\* closing line only in a step that finds session._started true, it gets to
\* the pause and the hangup only from the closing line; and once stopped it
\* says and does nothing more.
C34_LivenessFlagGuards ==
    [][/\ (TickStep /\ ~session_started) =>
              /\ wd_pc' = "stopped"
              /\ wd_log' = wd_log
              /\ hangup_calls' = hangup_calls
       /\ (wd_pc' \in {"say_warning", "say_closing"} /\ wd_pc' # wd_pc) =>
              session_started
       /\ (wd_pc' = "pause" /\ wd_pc # "pause") => wd_pc = "say_closing"
       /\ hangup_calls' # hangup_calls => wd_pc = "pause"
       /\ wd_pc = "stopped" =>
              /\ wd_pc' = "stopped"
              /\ wd_log' = wd_log
              /\ hangup_calls' = hangup_calls]_vars

\* C34 witness: the session ended while the watcher slept with the idle
\* timeout already passed; the watcher has stopped and has said and done
\* nothing.
C34_Witness ==
    /\ ~session_started
    /\ wd_pc = "stopped"
    /\ wd_log = <<>>
    /\ hangup_calls = 0
    /\ last_agent_finish_time # None
    /\ last_user_activity <= last_agent_finish_time
    /\ now - last_agent_finish_time > idle_timeout
    /\ now - last_agent_finish_time > warning_timeout

\* A turn event of the given role is delivered to on_conversation_item.
TurnEvent(role) ==
    /\ last_turn' = role
    /\ warnings_since_turn' = 0
    /\ UNCHANGED <<now, session_started, wd_pc, wd_wake, wd_log>>

\* C35: every user turn and every assistant turn leaves warning_sent false;
\* and whatever warnings were spoken before, a tick of a running session that
\* finds the silence since the agent's last turn longer than warning_timeout,
\* no user turn since, and warning_sent false starts a warning.
C35_WarningsNotCapped ==
    [][/\ (TurnEvent("user") \/ TurnEvent("assistant")) => ~warning_sent'
       /\ (/\ TickStep
           /\ session_started
           /\ last_agent_finish_time # None
           /\ last_user_activity <= last_agent_finish_time
           /\ now - last_agent_finish_time > warning_timeout
           /\ ~warning_sent) =>
              wd_pc' = "say_warning"]_vars

\* C35 witness: three warnings have been spoken in one call, with the user
\* and the agent speaking in between, and the watcher is still running.
C35_Witness ==
    /\ WdDid = <<"warning", "warning", "warning">>
    /\ last_user_activity >= 2
    /\ last_turn = "assistant"
    /\ warnings_since_turn = 1
    /\ wd_pc = "sleeping"

\* C36: reading a frame whose end_call flag is set does what reading the
\* same frame without the flag does: the stream ends only if the frame is the
\* complete one of its request, the frame's content is yielded as usual, no
\* error is raised, the connection stays as it is, and CallState and the
\* number of hangups do not change.
C36_EndCallOnlyLogged ==
    [][\A k \in Chats :
          (/\ chat[k].pc = "recv" /\ inbox # <<>> /\ inbox' = Tail(inbox)
           /\ Head(inbox).end_call) =>
              LET f == Head(inbox)
              IN /\ UNCHANGED <<ws, ws_open, open_conns, call_state,
                                hangup_calls>>
                 /\ chat'[k].err = "none"
                 /\ chat'[k].out = chat[k].out \o Delta(f, chat[k].id)
                 /\ chat'[k].pc =
                        IF Delta(f, chat[k].id) # <<>> THEN "yielded"
                        ELSE IF Completes(f, chat[k].id) THEN "done"
                        ELSE "recv"
                 /\ chat'[k].pc = "yielded" => chat'[k].fin = f.complete]_vars

\* C36 witness: the only frame the server has sent for request 1 so far
\* carried content and the end_call flag and was not the complete one; the
\* stream has yielded its content and is reading on, the connection is open.
C36_Witness ==
    /\ srv[1].flagged
    /\ srv[1].frames = 1
    /\ srv[1].state = "answering"
    /\ inbox = <<>>
    /\ chat[1].pc = "recv"
    /\ Len(chat[1].out) = 1
    /\ ws_open
    /\ hangup_calls = 0

\* C37: warning_sent is true only when last_agent_finish_time is set;
\* last_agent_finish_time, once set, stays set and never gets smaller; and a
\* user turn sets last_user_activity to the time of the turn, leaves
\* warning_sent false and leaves last_agent_finish_time as it is.
C37_TimerStateInvariants ==
    [][/\ warning_sent' => last_agent_finish_time' # None
       /\ last_agent_finish_time # None =>
              /\ last_agent_finish_time' # None
              /\ last_agent_finish_time' >= last_agent_finish_time
       /\ TurnEvent("user") =>
              /\ last_user_activity' = now
              /\ ~warning_sent'
              /\ last_agent_finish_time' = last_agent_finish_time]_vars

\* C37 witness: the agent has spoken, the user has answered later, and a
\* warning has been sent after a further silence following a new agent turn.
C37_Witness ==
    /\ warning_sent
    /\ last_user_activity >= 1
    /\ last_agent_finish_time > last_user_activity
    /\ wd_log = <<"warning">>
    /\ wd_pc = "sleeping"

\* C38: a stream that its consumer has abandoned does not hold the request
\* lock, so a chat entered afterwards does not have to wait for it.
C38_AbandonedStreamHoldsNoLock ==
    \A k \in Chats : chat[k].pc = "abandoned" => request_lock # k

\* C39: when the conversation converts to no messages, chat() still returns a
\* stream; its run gets no chunk from the provider, emits nothing until it
\* is over, and has then emitted exactly the apology chunk; no exception
\* leaves chat() or the run.
C39_NoMessagesStillAnswers ==
    (groq_pc # "new" /\ groq_messages = <<>>) =>
        /\ groq_pc \in {"idle", "error", "done"}
        /\ completion = <<>>
        /\ event_ch = IF groq_pc = "done" THEN <<ChatChunk("error", 0)>>
                      ELSE <<>>

\* C39 witness: the conversation held one message of blanks; the stream has
\* been drained and has given the apology chunk.
C39_Witness ==
    /\ Len(lk_messages) = 1
    /\ groq_messages = <<>>
    /\ groq_pc = "done"
    /\ event_ch = <<ChatChunk("error", 0)>>

====
